---- MODULE Spec2Model ----
(***************************************************************************)
(* A model of the bbrs chess engine core (src/src/engine): the bitboard    *)
(* attack oracle, the pseudo-legal move generator, make_move / take_back   *)
(* with the history stack, and the perft driver.                           *)
(*                                                                         *)
(* A u64 bitboard is modelled as the set of its set bit indices (0..63);   *)
(* |, & and ! become union, intersection and complement in 0..63, and a    *)
(* shift moves every index, dropping the ones that leave 0..63.            *)
(* Rust arrays are functions on 0..n-1.                                    *)
(***************************************************************************)
EXTENDS Integers, Sequences, FiniteSets, TLC

\* ------------------------------------------------------------------ helpers

ZeroBased(seq) == [i \in 0..(Len(seq) - 1) |-> seq[i + 1]]

RECURSIVE Flatten(_)
Flatten(seqs) == IF seqs = <<>> THEN <<>> ELSE Head(seqs) \o Flatten(Tail(seqs))

Squares == 0..63

SquareSeq == [i \in 1..64 |-> i - 1]

None == -1

\* ------------------------------------------------------- bits.rs primitives

bitboard(square) == {square}

get_bit(bb, square) == square \in bb

set_bit(bb, square) == bb \cup {square}

clear_bit(bb, square) == bb \ {square}

count_bits(bb) == Cardinality(bb)

get_lsb(bb) == IF bb = {} THEN 64 ELSE CHOOSE x \in bb : \A y \in bb : x <= y

get_msb(bb) == CHOOSE x \in bb : \A y \in bb : x >= y

clear_lsb(bb) == bb \ {get_lsb(bb)}

\* the set bits of a bitboard, highest first
msb_order(bb) ==
  LET up == SelectSeq(SquareSeq, LAMBDA sq : sq \in bb)
  IN  [i \in 1..Len(up) |-> up[Len(up) + 1 - i]]

\* The loop `while bb != 0 { sq = get_lsb!(bb); ...; clear_lsb!(bb) }`
\* visits the set bits in ascending order.
lsb_order(bb) == SelectSeq(SquareSeq, LAMBDA sq : sq \in bb)

\* ------------------------------------------------------------ piece.rs

WHITE == 0
BLACK == 1

PAWN == 0
KNIGHT == 1
BISHOP == 2
ROOK == 3
QUEEN == 4
KING == 5

PROMOTION_PIECES == <<QUEEN, ROOK, BISHOP, KNIGHT>>

WHITE_PAWN == 0
WHITE_KNIGHT == 1
WHITE_BISHOP == 2
WHITE_ROOK == 3
WHITE_QUEEN == 4
WHITE_KING == 5
BLACK_PAWN == 6
BLACK_KNIGHT == 7
BLACK_BISHOP == 8
BLACK_ROOK == 9
BLACK_QUEEN == 10
BLACK_KING == 11

range_ALL == 0..11

side_range(s) == IF s = WHITE THEN 0..5 ELSE 6..11

\* ------------------------------------------------------------ board.rs

A8 == 0
B8 == 1
C8 == 2
D8 == 3
E8 == 4
F8 == 5
G8 == 6
H8 == 7
A1 == 56
B1 == 57
C1 == 58
D1 == 59
E1 == 60
F1 == 61
G1 == 62
H1 == 63

\* ------------------------------------------------------------ castling.rs

WK == 1
WQ == 2
BK == 4
BQ == 8

CASLTING_RIGHTS ==
  ZeroBased(<<
     7, 15, 15, 15,  3, 15, 15, 11,
    15, 15, 15, 15, 15, 15, 15, 15,
    15, 15, 15, 15, 15, 15, 15, 15,
    15, 15, 15, 15, 15, 15, 15, 15,
    15, 15, 15, 15, 15, 15, 15, 15,
    15, 15, 15, 15, 15, 15, 15, 15,
    15, 15, 15, 15, 15, 15, 15, 15,
    13, 15, 15, 15, 12, 15, 15, 14
  >>)

\* a & b on the 4-bit castling masks
BitAnd4(a, b) ==
    ((a % 2) * (b % 2))
  + 2 * (((a \div 2) % 2) * ((b \div 2) % 2))
  + 4 * (((a \div 4) % 2) * ((b \div 4) % 2))
  + 8 * (((a \div 8) % 2) * ((b \div 8) % 2))

\* ------------------------------------------------------ attacks.rs: masks

FILE_MASKS ==
  ZeroBased(<<
    {0, 8, 16, 24, 32, 40, 48, 56},
    {1, 9, 17, 25, 33, 41, 49, 57},
    {2, 10, 18, 26, 34, 42, 50, 58},
    {3, 11, 19, 27, 35, 43, 51, 59},
    {4, 12, 20, 28, 36, 44, 52, 60},
    {5, 13, 21, 29, 37, 45, 53, 61},
    {6, 14, 22, 30, 38, 46, 54, 62},
    {7, 15, 23, 31, 39, 47, 55, 63}
  >>)

RANK_MASKS ==
  ZeroBased(<<
    {0, 1, 2, 3, 4, 5, 6, 7},
    {8, 9, 10, 11, 12, 13, 14, 15},
    {16, 17, 18, 19, 20, 21, 22, 23},
    {24, 25, 26, 27, 28, 29, 30, 31},
    {32, 33, 34, 35, 36, 37, 38, 39},
    {40, 41, 42, 43, 44, 45, 46, 47},
    {48, 49, 50, 51, 52, 53, 54, 55},
    {56, 57, 58, 59, 60, 61, 62, 63}
  >>)

DIAGONAL_MASKS ==
  ZeroBased(<<
    {56},
    {48, 57},
    {40, 49, 58},
    {32, 41, 50, 59},
    {24, 33, 42, 51, 60},
    {16, 25, 34, 43, 52, 61},
    {8, 17, 26, 35, 44, 53, 62},
    {0, 9, 18, 27, 36, 45, 54, 63},
    {1, 10, 19, 28, 37, 46, 55},
    {2, 11, 20, 29, 38, 47},
    {3, 12, 21, 30, 39},
    {4, 13, 22, 31},
    {5, 14, 23},
    {6, 15},
    {7}
  >>)

ANTI_DIAGONAL_MASKS ==
  ZeroBased(<<
    {0},
    {1, 8},
    {2, 9, 16},
    {3, 10, 17, 24},
    {4, 11, 18, 25, 32},
    {5, 12, 19, 26, 33, 40},
    {6, 13, 20, 27, 34, 41, 48},
    {7, 14, 21, 28, 35, 42, 49, 56},
    {15, 22, 29, 36, 43, 50, 57},
    {23, 30, 37, 44, 51, 58},
    {31, 38, 45, 52, 59},
    {39, 46, 53, 60},
    {47, 54, 61},
    {55, 62},
    {63}
  >>)

FILE_A == FILE_MASKS[0]
FILE_B == FILE_MASKS[1]
FILE_G == FILE_MASKS[6]
FILE_H == FILE_MASKS[7]
FILE_AB == FILE_A \cup FILE_B
FILE_GH == FILE_G \cup FILE_H

RANK_1 == RANK_MASKS[7]
RANK_2 == RANK_MASKS[6]
RANK_7 == RANK_MASKS[1]
RANK_8 == RANK_MASKS[0]

VBORDER_MASK == FILE_A \cup FILE_H
HBORDER_MASK == RANK_1 \cup RANK_8
BORDER_MASK == VBORDER_MASK \cup HBORDER_MASK

Not(mask) == Squares \ mask

\* ---------------------------------------------------- attacks.rs: leapers

PAWN_OFFSETS ==
  ZeroBased(<<
    << <<-7, Not(FILE_A)>>, <<-9, Not(FILE_H)>> >>,
    << << 9, Not(FILE_A)>>, << 7, Not(FILE_H)>> >>
  >>)

KNIGHT_OFFSETS ==
  << << 6, Not(FILE_GH)>>, << 10, Not(FILE_AB)>>, << 15, Not(FILE_H)>>, << 17, Not(FILE_A)>>,
     <<-6, Not(FILE_AB)>>, <<-10, Not(FILE_GH)>>, <<-15, Not(FILE_A)>>, <<-17, Not(FILE_H)>> >>

KING_OFFSETS ==
  << << 1, Not(FILE_A)>>, << 7, Not(FILE_H)>>, << 8, Squares>>, << 9, Not(FILE_A)>>,
     <<-1, Not(FILE_H)>>, <<-7, Not(FILE_A)>>, <<-8, Squares>>, <<-9, Not(FILE_H)>> >>

\* bitboard << offset (offset > 0) or bitboard >> -offset: every bit index
\* moves by offset, and the bits shifted out of the 64-bit word are lost.
shift(bb, offset) == {sq + offset : sq \in bb} \cap Squares

\* the offsets without their file masks: a step off one edge of the board
\* comes back on the other
mask_leaper_attacks_wrapping(square, offsets) ==
  UNION {shift(bitboard(square), offsets[i][1]) : i \in 1..Len(offsets)}

mask_leaper_attacks(square, offsets) ==
  UNION { LET shifted == shift(bitboard(square), offsets[i][1])
          IN  IF shifted \cap offsets[i][2] # {} THEN shifted ELSE {}
        : i \in 1..Len(offsets) }

mask_pawn_attacks(square, s) == mask_leaper_attacks(square, PAWN_OFFSETS[s])

mask_knight_attacks(square) == mask_leaper_attacks(square, KNIGHT_OFFSETS)

mask_king_attacks(square) == mask_leaper_attacks(square, KING_OFFSETS)

\* ---------------------------------------------------- attacks.rs: sliders

\* Hyperbola Quintessence on one line: with o = occupancy & slider_mask and
\* s = bit(square), (o - 2s) flips the bits of the line above the square up
\* to and including the first occupied one (all of them if none is occupied,
\* the borrow running off the word), the bit-reversed subtraction does the
\* same below the square, and the xor of the two, masked to the line, is the
\* set of squares reached in both directions.
generate_slider_attacks(square, slider_mask, occupancy) ==
  LET forward == occupancy \cap slider_mask
      above   == {x \in slider_mask : x > square}
      below   == {x \in slider_mask : x < square}
      hitUp   == forward \cap above
      hitDown == forward \cap below
      up      == IF hitUp = {} THEN above
                 ELSE {x \in above : x <= get_lsb(hitUp)}
      down    == IF hitDown = {} THEN below
                 ELSE {x \in below : x >= get_msb(hitDown)}
  IN  up \cup down

mask_slider_attacks(square, slider_mask) ==
  generate_slider_attacks(square, slider_mask, {})

mask_bishop_attacks(square) ==
  LET rank == square \div 8
      file == square % 8
  IN  mask_slider_attacks(square, DIAGONAL_MASKS[7 - rank + file] \ BORDER_MASK)
        \cup mask_slider_attacks(square, ANTI_DIAGONAL_MASKS[rank + file] \ BORDER_MASK)

mask_rook_attacks(square) ==
  mask_slider_attacks(square, RANK_MASKS[square \div 8] \ VBORDER_MASK)
    \cup mask_slider_attacks(square, FILE_MASKS[square % 8] \ HBORDER_MASK)

generate_bishop_attacks(square, occupancy) ==
  LET rank == square \div 8
      file == square % 8
  IN  generate_slider_attacks(square, DIAGONAL_MASKS[7 - rank + file], occupancy)
        \cup generate_slider_attacks(square, ANTI_DIAGONAL_MASKS[rank + file], occupancy)

generate_rook_attacks(square, occupancy) ==
  generate_slider_attacks(square, RANK_MASKS[square \div 8], occupancy)
    \cup generate_slider_attacks(square, FILE_MASKS[square % 8], occupancy)

\* ------------------------------------------------ attacks.rs: AttackTable

\* AttackTable::init fills the leaper tables and the relevant-occupancy masks.
pawns == [s \in {WHITE, BLACK} |-> [square \in Squares |-> mask_pawn_attacks(square, s)]]

knights == [square \in Squares |-> mask_knight_attacks(square)]

kings == [square \in Squares |-> mask_king_attacks(square)]

bishop_masks == [square \in Squares |-> mask_bishop_attacks(square)]

rook_masks == [square \in Squares |-> mask_rook_attacks(square)]

\* init_slider_attacks stores, for every subset occ of the relevant mask,
\* generate_*_attacks(square, occ) at index (occ * magic) >> (64 - bits);
\* get_slider_attacks reads the row at the index of occupancy & mask.  The
\* row is modelled as keyed by the masked occupancy itself.
get_slider_attacks(square, occupancy, is_bishop) ==
  IF is_bishop
    THEN generate_bishop_attacks(square, occupancy \cap bishop_masks[square])
    ELSE generate_rook_attacks(square, occupancy \cap rook_masks[square])

get_pawn_attacks(s, square) == pawns[s][square]

get_knight_attacks(square) == knights[square]

get_king_attacks(square) == kings[square]

get_bishop_attacks(square, occupancy) == get_slider_attacks(square, occupancy, TRUE)

get_rook_attacks(square, occupancy) == get_slider_attacks(square, occupancy, FALSE)

get_queen_attacks(square, occupancy) ==
  get_bishop_attacks(square, occupancy) \cup get_rook_attacks(square, occupancy)

\* ------------------------------------------------ attacks.rs: magic tables
\* The rows of the slider tables as init_slider_attacks fills them and
\* get_slider_attacks reads them, with the shipped magics.  A u64 is held
\* as four 16-bit limbs, most significant first, as the hexadecimal constant
\* reads.

BISHOP_RELEVANT_BITS ==
  ZeroBased(<<6, 5, 5, 5, 5, 5, 5, 6,
              5, 5, 5, 5, 5, 5, 5, 5,
              5, 5, 7, 7, 7, 7, 5, 5,
              5, 5, 7, 9, 9, 7, 5, 5,
              5, 5, 7, 9, 9, 7, 5, 5,
              5, 5, 7, 7, 7, 7, 5, 5,
              5, 5, 5, 5, 5, 5, 5, 5,
              6, 5, 5, 5, 5, 5, 5, 6>>)

ROOK_RELEVANT_BITS ==
  ZeroBased(<<12, 11, 11, 11, 11, 11, 11, 12,
              11, 10, 10, 10, 10, 10, 10, 11,
              11, 10, 10, 10, 10, 10, 10, 11,
              11, 10, 10, 10, 10, 10, 10, 11,
              11, 10, 10, 10, 10, 10, 10, 11,
              11, 10, 10, 10, 10, 10, 10, 11,
              11, 10, 10, 10, 10, 10, 10, 11,
              12, 11, 11, 11, 11, 11, 11, 12>>)

BISHOP_MAGICS ==
  ZeroBased(<<
    <<\h0040, \h0408, \h4440, \h4084>>,
    <<\h0020, \h0420, \h8A00, \h4208>>,
    <<\h0010, \h1900, \h4108, \h0202>>,
    <<\h0108, \h0608, \h4504, \h2010>>,
    <<\h0581, \h1041, \h8080, \h0210>>,
    <<\h2112, \h0804, \h4620, \h0010>>,
    <<\h1080, \h8208, \h2006, \h0210>>,
    <<\h03C0, \h8084, \h1022, \h0200>>,
    <<\h0004, \h0504, \h0444, \h0404>>,
    <<\h0000, \h0210, \h0142, \h0088>>,
    <<\h24D0, \h0808, \h0108, \h2102>>,
    <<\h0001, \h020A, \h0A02, \h0400>>,
    <<\h0000, \h0403, \h0820, \h0402>>,
    <<\h0004, \h0110, \h0210, \h0800>>,
    <<\h0401, \h4841, \h0410, \h4005>>,
    <<\h0801, \h0104, \h0202, \h0200>>,
    <<\h0040, \h0210, \hC388, \h0100>>,
    <<\h0404, \h0220, \h2410, \h8200>>,
    <<\h0810, \h0182, \h0020, \h4102>>,
    <<\h0004, \h0028, \h01A0, \h2003>>,
    <<\h0085, \h0408, \h2008, \h0400>>,
    <<\h8101, \h02C8, \h0888, \h0400>>,
    <<\h000E, \h9004, \h1088, \h4800>>,
    <<\h8002, \h0204, \h8084, \h0102>>,
    <<\h0220, \h2008, \h6509, \h0201>>,
    <<\h2010, \h100A, \h0202, \h1202>>,
    <<\h0152, \h0484, \h0802, \h2401>>,
    <<\h0020, \h0800, \h0208, \h1110>>,
    <<\h4001, \h0010, \h2100, \h4000>>,
    <<\h8000, \h4040, \h0A01, \h1002>>,
    <<\h00E4, \h0040, \h8101, \h1002>>,
    <<\h001C, \h0040, \h0101, \h2080>>,
    <<\h8004, \h2009, \h62A0, \h0220>>,
    <<\h8422, \h1002, \h0850, \h0202>>,
    <<\h2000, \h4022, \h0030, \h0C08>>,
    <<\h8646, \h0200, \h8008, \h0080>>,
    <<\h8002, \h0A02, \h0010, \h0808>>,
    <<\h2010, \h0048, \h8011, \h1000>>,
    <<\h6230, \h00A0, \h8001, \h1400>>,
    <<\h4200, \h8C03, \h4020, \h9202>>,
    <<\h0209, \h1882, \h4000, \h1000>>,
    <<\h4004, \h08A8, \h8400, \h1800>>,
    <<\h0011, \h0400, \hA608, \h0400>>,
    <<\h1840, \h060A, \h4402, \h0800>>,
    <<\h0090, \h0801, \h0400, \h0041>>,
    <<\h0201, \h0110, \h0080, \h8101>>,
    <<\h1A22, \h0808, \h0504, \hF080>>,
    <<\h8012, \h0206, \h0021, \h1212>>,
    <<\h0500, \h8610, \h1124, \h0000>>,
    <<\h0180, \h8061, \h0820, \h0800>>,
    <<\h4000, \h020E, \h0104, \h0044>>,
    <<\h3000, \h0026, \h1044, \h000A>>,
    <<\h0802, \h2411, \h0202, \h0002>>,
    <<\h0020, \h9060, \h6121, \h0001>>,
    <<\h5A84, \h8410, \h0401, \h0310>>,
    <<\h0004, \h0108, \h0101, \h1C04>>,
    <<\h000A, \h0101, \h0950, \h2200>>,
    <<\h0000, \h004A, \h0201, \h2000>>,
    <<\h5002, \h0101, \h0098, \hB028>>,
    <<\h8040, \h0028, \h1104, \h0900>>,
    <<\h0028, \h0000, \h1002, \h0204>>,
    <<\h0600, \h0020, \h202D, \h0240>>,
    <<\h8918, \h8448, \h4208, \h2200>>,
    <<\h4010, \h0110, \h2902, \h0020>> >>)

ROOK_MAGICS ==
  ZeroBased(<<
    <<\h8A80, \h1040, \h0080, \h0020>>,
    <<\h0140, \h0020, \h0010, \h0040>>,
    <<\h0280, \h1880, \hA001, \h7001>>,
    <<\h0100, \h0810, \h0100, \h0420>>,
    <<\h0200, \h0200, \h1008, \h0420>>,
    <<\h0300, \h1C00, \h0201, \h0008>>,
    <<\h8480, \h0080, \h0200, \h0100>>,
    <<\h2080, \h0880, \h0440, \h2900>>,
    <<\h0000, \h8000, \h9820, \h4000>>,
    <<\h2024, \h4010, \h0020, \h0040>>,
    <<\h0100, \h8020, \h0080, \h1000>>,
    <<\h0120, \h8008, \h0080, \h1000>>,
    <<\h0208, \h8080, \h8800, \h0400>>,
    <<\h0002, \h8022, \h0080, \h0400>>,
    <<\h2200, \h8001, \h0002, \h0080>>,
    <<\h0801, \h0000, \h6082, \h1100>>,
    <<\h0080, \h0440, \h0642, \h2000>>,
    <<\h0100, \h8080, \h2000, \h4000>>,
    <<\h1210, \h8A00, \h1020, \h4200>>,
    <<\h0140, \h8480, \h1000, \h0802>>,
    <<\h0481, \h8280, \h1400, \h2800>>,
    <<\h8094, \h0040, \h0200, \h4100>>,
    <<\h4010, \h0400, \h1001, \h0802>>,
    <<\h0000, \h0200, \h0880, \h6104>>,
    <<\h0100, \h4000, \h8020, \h8000>>,
    <<\h2040, \h0021, \h2008, \h1000>>,
    <<\h0021, \h2006, \h8010, \h0081>>,
    <<\h0020, \h1000, \h8008, \h0080>>,
    <<\h0002, \h000A, \h0020, \h0410>>,
    <<\h0000, \h0200, \h8080, \h0400>>,
    <<\h0080, \h0884, \h0010, \h0102>>,
    <<\h0080, \h0046, \h0004, \h2881>>,
    <<\h4040, \h0080, \h4080, \h0020>>,
    <<\h0440, \h0030, \h0020, \h0801>>,
    <<\h0004, \h2000, \h1100, \h4500>>,
    <<\h0188, \h0200, \h1010, \h0100>>,
    <<\h0014, \h8004, \h0180, \h2800>>,
    <<\h2080, \h0400, \h8080, \h0200>>,
    <<\h0124, \h0802, \h0400, \h1001>>,
    <<\h0200, \h0465, \h0200, \h0484>>,
    <<\h0480, \h4000, \h8008, \h8020>>,
    <<\h1000, \h4220, \h1003, \h4000>>,
    <<\h0030, \h2001, \h0011, \h0040>>,
    <<\h0000, \h1000, \h2101, \h0009>>,
    <<\h2002, \h0801, \h0011, \h0004>>,
    <<\h0202, \h0080, \h0400, \h8002>>,
    <<\h0020, \h0200, \h0401, \h0100>>,
    <<\h2048, \h4400, \h4082, \h0001>>,
    <<\h0101, \h0022, \h0040, \h8200>>,
    <<\h0040, \h8020, \h0040, \h1080>>,
    <<\h4008, \h1420, \h0441, \h0100>>,
    <<\h0206, \h0820, \hC012, \h0200>>,
    <<\h0001, \h0010, \h0408, \h0100>>,
    <<\h020C, \h0200, \h8004, \h0080>>,
    <<\h2935, \h6108, \h3002, \h2400>>,
    <<\h0044, \h4400, \h4100, \h9200>>,
    <<\h0280, \h0010, \h4080, \h2101>>,
    <<\h2100, \h1900, \h4000, \h2085>>,
    <<\h80C0, \h0841, \h0010, \h2001>>,
    <<\h4024, \h0810, \h0100, \h0421>>,
    <<\h0002, \h0030, \hA024, \h4872>>,
    <<\h0012, \h0010, \h0841, \h4402>>,
    <<\h0200, \h6104, \h900A, \h0804>>,
    <<\h0001, \h0040, \h8100, \h2402>> >>)

\* the limb of weight 2^(16 j) of a u64
limb(word, j) == IF j \in 0..3 THEN word[4 - j] ELSE 0

\* the limb of weight 2^(16 k) of word << b, the bits shifted out of the u64
\* lost
shifted_limb(word, b, k) ==
  (limb(word, k - (b \div 16)) % 2^(16 - (b % 16))) * 2^(b % 16)
    + (limb(word, k - (b \div 16) - 1) \div 2^(16 - (b % 16)))

\* the sum of the limbs of weight 2^(16 k) of word << b over the bits b
RECURSIVE column(_, _, _)
column(bits, word, k) ==
  IF bits = {} THEN 0
  ELSE shifted_limb(word, get_lsb(bits), k) + column(clear_lsb(bits), word, k)

\* the top 16 bits of occupancy.wrapping_mul(magic): the occupancy is the
\* sum of its bits, and the carries run up the four columns
wrapping_mul_top(occupancy, magic) ==
  LET carried[k \in 0..3] ==
        column(occupancy, magic, k) + (IF k = 0 THEN 0 ELSE (carried[k - 1] \div 2^16))
  IN  carried[3] % 2^16

\* the index shifted one bit too far: half of the row
magic_index_short(occupancy, magic, bits) ==
  wrapping_mul_top(occupancy, magic) \div 2^(16 - bits + 1)

\* (occupancy.wrapping_mul(magic)) >> (64 - bits)
magic_index(occupancy, magic, bits) == wrapping_mul_top(occupancy, magic) \div 2^(16 - bits)

\* the occupancy number index of a mask: bit count of index places the
\* count-th lowest square of the mask
create_occupancy(index, mask, bits) ==
  {lsb_order(mask)[count + 1] : count \in {c \in 0..(bits - 1) : (index \div 2^c) % 2 = 1}}

\* (mask, magic, bits) of a square
slider(square, is_bishop) ==
  IF is_bishop
    THEN [mask  |-> bishop_masks[square],
          magic |-> BISHOP_MAGICS[square],
          bits  |-> BISHOP_RELEVANT_BITS[square]]
    ELSE [mask  |-> rook_masks[square],
          magic |-> ROOK_MAGICS[square],
          bits  |-> ROOK_RELEVANT_BITS[square]]

generate_attacks(square, occupancy, is_bishop) ==
  IF is_bishop THEN generate_bishop_attacks(square, occupancy)
  ELSE generate_rook_attacks(square, occupancy)

\* the writes of init_slider_attacks for the indices lo .. hi - 1, in order:
\* attacks[magic_index] = generate_*_attacks(square, occupancy), a later
\* write of an entry replacing an earlier one
RECURSIVE slider_writes(_, _, _, _)
slider_writes(square, is_bishop, lo, hi) ==
  IF hi - lo = 1
    THEN LET occupancy == create_occupancy(lo, slider(square, is_bishop).mask,
                                           slider(square, is_bishop).bits)
         IN  magic_index(occupancy, slider(square, is_bishop).magic,
                         slider(square, is_bishop).bits)
               :> generate_attacks(square, occupancy, is_bishop)
    ELSE slider_writes(square, is_bishop, (lo + hi) \div 2, hi)
           @@ slider_writes(square, is_bishop, lo, (lo + hi) \div 2)

\* the row of one square as init_slider_attacks leaves it: vec![0; 1 << bits]
\* with the writes of the indices 0 .. (1 << bits) - 1 made
init_slider_attacks(square, is_bishop) ==
  slider_writes(square, is_bishop, 0, 2^slider(square, is_bishop).bits)
    @@ [entry \in 0..(2^slider(square, is_bishop).bits - 1) |-> {}]

\* get_slider_attacks on a row: the entry at the magic index of the masked
\* occupancy, None for an index past the end of the row (a panic)
read_slider_attacks(row, square, occupancy, is_bishop) ==
  LET index == magic_index(occupancy \cap slider(square, is_bishop).mask,
                           slider(square, is_bishop).magic,
                           slider(square, is_bishop).bits)
  IN  IF index \in DOMAIN row THEN row[index] ELSE None

\* ------------------------------------------------------------ moves.rs

CAPTURE == 1
DOUBLE == 2
EN_PASSANT == 4
CASTLE == 8

\* source | target << 6 | piece << 12 | promotion << 16 | flags << 20; the
\* fields the generator passes fit their widths, so the ors add up.
encode_move(source, target, piece, promotion, flags) ==
  source + target * 64 + piece * 4096 + promotion * 65536 + flags * 1048576

\* decode_move with a promotion field of three bits, one short
decode_move_narrow(m) ==
  [source     |-> m % 64,
   target     |-> (m \div 64) % 64,
   piece      |-> (m \div 4096) % 16,
   promotion  |-> (m \div 65536) % 8,
   capture    |-> (m \div 1048576) % 2 = 1,
   double     |-> (m \div 2097152) % 2 = 1,
   en_passant |-> (m \div 4194304) % 2 = 1,
   castle     |-> (m \div 8388608) % 2 = 1]

decode_move(m) ==
  [source     |-> m % 64,
   target     |-> (m \div 64) % 64,
   piece      |-> (m \div 4096) % 16,
   promotion  |-> (m \div 65536) % 16,
   capture    |-> (m \div 1048576) % 2 = 1,
   double     |-> (m \div 2097152) % 2 = 1,
   en_passant |-> (m \div 4194304) % 2 = 1,
   castle     |-> (m \div 8388608) % 2 = 1]

\* ------------------------------------------------------------ fen.rs

ASCII_PIECES == ZeroBased(<<"P", "N", "B", "R", "Q", "K", "p", "n", "b", "r", "q", "k">>)

Digits == ZeroBased(<<"0", "1", "2", "3", "4", "5", "6", "7", "8", "9">>)

is_ascii_digit(ch) == \E d \in 0..9 : Digits[d] = ch

to_digit(ch) == CHOOSE d \in 0..9 : Digits[d] = ch

parse_piece(ch) ==
  IF \E p \in 0..11 : ASCII_PIECES[p] = ch
    THEN CHOOSE p \in 0..11 : ASCII_PIECES[p] = ch
    ELSE None

\* the letters, in the order of their ASCII codes
Lowers ==
  ZeroBased(<<"a", "b", "c", "d", "e", "f", "g", "h", "i", "j", "k", "l", "m",
              "n", "o", "p", "q", "r", "s", "t", "u", "v", "w", "x", "y", "z">>)

Uppers ==
  ZeroBased(<<"A", "B", "C", "D", "E", "F", "G", "H", "I", "J", "K", "L", "M",
              "N", "O", "P", "Q", "R", "S", "T", "U", "V", "W", "X", "Y", "Z">>)

\* the printable ASCII characters, in the order of their codes: from 32 to
\* 95 and from 97 to 126
PRINTABLE ==
  ZeroBased(<<" ", "!", "\"", "#", "$", "%", "&", "'", "(", ")", "*", "+", ",", "-", ".", "/",
              "0", "1", "2", "3", "4", "5", "6", "7", "8", "9", ":", ";", "<", "=", ">", "?",
              "@", "A", "B", "C", "D", "E", "F", "G", "H", "I", "J", "K", "L", "M", "N", "O",
              "P", "Q", "R", "S", "T", "U", "V", "W", "X", "Y", "Z", "[", "\\", "]", "^", "_">>)

PRINTABLE_FROM_A ==
  ZeroBased(<<"a", "b", "c", "d", "e", "f", "g", "h", "i", "j", "k", "l", "m", "n", "o",
              "p", "q", "r", "s", "t", "u", "v", "w", "x", "y", "z", "{", "|", "}", "~">>)

\* characters outside ASCII, with their code points
NON_ASCII == ("é" :> 233) @@ ("ø" :> 248) @@ ("€" :> 8364)

\* the code point of a character
code_point(ch) ==
  IF ch \in DOMAIN NON_ASCII THEN NON_ASCII[ch]
  ELSE IF \E i \in DOMAIN PRINTABLE : PRINTABLE[i] = ch
    THEN 32 + (CHOOSE i \in DOMAIN PRINTABLE : PRINTABLE[i] = ch)
  ELSE 97 + (CHOOSE i \in DOMAIN PRINTABLE_FROM_A : PRINTABLE_FROM_A[i] = ch)

\* the bytes of the character in a str (UTF-8)
len_utf8(ch) ==
  IF code_point(ch) < 128 THEN 1
  ELSE IF code_point(ch) < 2048 THEN 2
  ELSE IF code_point(ch) < 65536 THEN 3
  ELSE 4

\* str::len: the length in bytes
RECURSIVE str_len(_)
str_len(chars) == IF chars = <<>> THEN 0 ELSE len_utf8(Head(chars)) + str_len(Tail(chars))

\* ch as u8: the low byte of the code point
char_code(ch) == code_point(ch) % 256

\* the outcome of an operation that aborts the process (unwrap on None, an
\* index out of bounds, an arithmetic overflow in a build with overflow
\* checks)
Panic == -2

\* u8 arithmetic: with overflow checks (debug builds) an overflow panics,
\* without them (release builds) the result wraps
sub_u8(a, b, overflow_checks) ==
  IF a >= b THEN a - b ELSE IF overflow_checks THEN Panic ELSE a - b + 256

mul_u8(a, b, overflow_checks) ==
  IF a * b <= 255 THEN a * b ELSE IF overflow_checks THEN Panic ELSE (a * b) % 256

add_u8(a, b, overflow_checks) ==
  IF a + b <= 255 THEN a + b ELSE IF overflow_checks THEN Panic ELSE (a + b) % 256

\* file = chars.next().unwrap() as u8 - b'a';
\* rank = 8 - chars.next().unwrap().to_digit(10).unwrap() as u8;
\* rank * 8 + file
algebraic_to_index(square, overflow_checks) ==
  IF Len(square) < 1 THEN Panic
  ELSE LET file == sub_u8(char_code(square[1]), 97, overflow_checks)
       IN  IF file = Panic THEN Panic
           ELSE IF Len(square) < 2 \/ ~is_ascii_digit(square[2]) THEN Panic
           ELSE LET rank == sub_u8(8, to_digit(square[2]), overflow_checks)
                    row  == IF rank = Panic THEN Panic ELSE mul_u8(rank, 8, overflow_checks)
                IN  IF row = Panic THEN Panic ELSE add_u8(row, file, overflow_checks)

\* file = (index % 8) as u8 + b'a'; rank = 8 - (index / 8), for an index on
\* the board
index_to_algebraic(index) ==
  <<Lowers[index % 8], Digits[8 - (index \div 8)]>>

RECURSIVE parse_castle_rights(_, _)
parse_castle_rights(rights, mask) ==
  IF rights = <<>> THEN mask
  ELSE LET ch == Head(rights)
           bit == CASE ch = "K" -> WK
                    [] ch = "Q" -> WQ
                    [] ch = "k" -> BK
                    [] ch = "q" -> BQ
                    [] ch = "-" -> 0
                    [] OTHER -> None
       IN  IF bit = None THEN None
           ELSE parse_castle_rights(Tail(rights),
                                    IF BitAnd4(mask, bit) = 0 THEN mask + bit ELSE mask)

\* square.len() is the length in bytes
parse_en_passant(square, overflow_checks) ==
  IF square = <<"-">> THEN [ok |-> TRUE, value |-> None]
  ELSE IF str_len(square) # 2 THEN [ok |-> FALSE, value |-> None]
  ELSE [ok |-> TRUE, value |-> algebraic_to_index(square, overflow_checks)]

\* str::parse::<u8>: an optional '+', then a non-empty run of decimal digits
\* with value <= 255
RECURSIVE parse_number(_, _)
parse_number(chars, acc) ==
  IF chars = <<>> THEN acc
  ELSE IF ~is_ascii_digit(Head(chars)) THEN None
  ELSE LET v == acc * 10 + to_digit(Head(chars))
       IN  IF v > 255 THEN None ELSE parse_number(Tail(chars), v)

parse_u8(chars) ==
  LET digits == IF chars # <<>> /\ Head(chars) = "+" THEN Tail(chars) ELSE chars
  IN  IF digits = <<>> THEN None ELSE parse_number(digits, 0)

\* the piece placement loop: index starts at 0 (a8); '/' leaves it, a digit
\* adds its value, a piece letter sets bit index of that piece's bitboard
\* and adds one; any other character is an error.
placement_step(ch) ==
  IF ch = "/" THEN 0
  ELSE IF is_ascii_digit(ch) THEN to_digit(ch)
  ELSE 1

\* set_bit!(bitboards[piece], index) shifts 1u64 by index: past bit 63 the
\* shift panics with overflow checks and takes index mod 64 without.
parse_placement(chars, overflow_checks) ==
  LET index[i \in 0..Len(chars)] ==
        IF i = 0 THEN 0 ELSE index[i - 1] + placement_step(chars[i])
      valid(ch) == ch = "/" \/ is_ascii_digit(ch) \/ parse_piece(ch) # None
      invalid   == {i \in 1..Len(chars) : ~valid(chars[i])}
      overflow  == {i \in 1..Len(chars) :
                      overflow_checks /\ parse_piece(chars[i]) # None /\ index[i - 1] > 63}
      before(i, others) == \A j \in others : i < j
  IN  [ok        |-> invalid = {} /\ overflow = {},
       panic     |-> \E i \in overflow : before(i, invalid),
       bitboards |-> [p \in 0..11 |->
                        {index[i - 1] % 64 : i \in {j \in 1..Len(chars) : parse_piece(chars[j]) = p}}]]

\* fen is the list of the whitespace-separated sections, each a list of
\* characters.
fen_parse(fen, overflow_checks) ==
  IF Len(fen) # 6
    THEN [ok |-> FALSE, panic |-> FALSE, err |-> "Invalid FEN: Incorrect number of sections"]
  ELSE IF parse_u8(fen[5]) = None
    THEN [ok |-> FALSE, panic |-> FALSE, err |-> "Invalid halfmove clock"]
  ELSE IF parse_u8(fen[6]) = None
    THEN [ok |-> FALSE, panic |-> FALSE, err |-> "Invalid fullmove number"]
  ELSE LET placed == parse_placement(fen[1], overflow_checks)
           rights == parse_castle_rights(fen[3], 0)
           ep     == parse_en_passant(fen[4], overflow_checks)
       IN  IF placed.panic
             THEN [ok |-> FALSE, panic |-> TRUE, err |-> "attempt to shift left with overflow"]
           ELSE IF ~placed.ok
             THEN [ok |-> FALSE, panic |-> FALSE, err |-> "Invalid FEN: Unexpected character"]
           ELSE IF fen[2] \notin {<<"w">>, <<"b">>}
             THEN [ok |-> FALSE, panic |-> FALSE,
                   err |-> "Invalid FEN: Active color must be 'w' or 'b'"]
           ELSE IF rights = None
             THEN [ok |-> FALSE, panic |-> FALSE,
                   err |-> "Invalid FEN: Unexpected character in castling rights"]
           ELSE IF ~ep.ok
             THEN [ok |-> FALSE, panic |-> FALSE,
                   err |-> "Invalid FEN: En passant square must be in algebraic notation"]
           ELSE IF ep.value = Panic
             THEN [ok |-> FALSE, panic |-> TRUE, err |-> "algebraic_to_index"]
           ELSE [ok |-> TRUE,
                 panic |-> FALSE,
                 state |-> [bitboards  |-> placed.bitboards,
                            side       |-> IF fen[2] = <<"w">> THEN WHITE ELSE BLACK,
                            castling   |-> rights,
                            en_passant |-> ep.value,
                            half_moves |-> parse_u8(fen[5]),
                            full_moves |-> parse_u8(fen[6])]]

\* the engine with the given position and history
with_state(st, history_) ==
  [bitboards  |-> st.bitboards,
   side       |-> st.side,
   castling   |-> st.castling,
   en_passant |-> st.en_passant,
   half_moves |-> st.half_moves,
   full_moves |-> st.full_moves,
   history    |-> history_]

\* Engine::new: the parsed state with an empty history
Engine_new(fen) == with_state(fen_parse(fen, TRUE).state, <<>>)

\* ------------------------------------------------------------ engine/mod.rs

get_occupancy(bbs, range) == UNION {bbs[p] : p \in range}

\* is_square_attacked without the rook test
is_square_attacked_no_rooks(bbs, square, s) ==
  LET enemy  == 1 - s
      first  == enemy * 6
      occupancy == get_occupancy(bbs, range_ALL)
  IN  \/ get_pawn_attacks(s, square) \cap bbs[first + PAWN] # {}
      \/ get_knight_attacks(square) \cap bbs[first + KNIGHT] # {}
      \/ get_king_attacks(square) \cap bbs[first + KING] # {}
      \/ get_bishop_attacks(square, occupancy) \cap bbs[first + BISHOP] # {}
      \/ get_queen_attacks(square, occupancy) \cap bbs[first + QUEEN] # {}

\* is the square attacked by the enemy of side s
is_square_attacked(bbs, square, s) ==
  LET enemy  == 1 - s
      pawn   == IF enemy = WHITE THEN WHITE_PAWN ELSE BLACK_PAWN
      knight == IF enemy = WHITE THEN WHITE_KNIGHT ELSE BLACK_KNIGHT
      bishop == IF enemy = WHITE THEN WHITE_BISHOP ELSE BLACK_BISHOP
      rook   == IF enemy = WHITE THEN WHITE_ROOK ELSE BLACK_ROOK
      queen  == IF enemy = WHITE THEN WHITE_QUEEN ELSE BLACK_QUEEN
      king   == IF enemy = WHITE THEN WHITE_KING ELSE BLACK_KING
  IN  IF \/ get_pawn_attacks(s, square) \cap bbs[pawn] # {}
         \/ get_knight_attacks(square) \cap bbs[knight] # {}
         \/ get_king_attacks(square) \cap bbs[king] # {}
        THEN TRUE
        ELSE LET occupancy == get_occupancy(bbs, range_ALL)
             IN  \/ get_bishop_attacks(square, occupancy) \cap bbs[bishop] # {}
                 \/ get_rook_attacks(square, occupancy) \cap bbs[rook] # {}
                 \/ get_queen_attacks(square, occupancy) \cap bbs[queen] # {}

can_castle(castling_, mask) ==
  IF castling_ = 0 THEN FALSE ELSE BitAnd4(castling_, mask) # 0

get_piece(bbs, s, target) ==
  IF \E p \in side_range(s) : get_bit(bbs[p], target)
    THEN get_lsb({p \in side_range(s) : get_bit(bbs[p], target)})
    ELSE None

\* -- generate_moves: pawns

\* what a list-valued operation gives when the code panics inside it
Panicked == <<Panic>>

\* the lists one after the other, unless the code panicked in one of them
Joined(lists) ==
  IF \E i \in 1..Len(lists) : lists[i] = Panicked THEN Panicked ELSE Flatten(lists)

\* bitboard!(square) = 1u64 << square for a u8 square: a shift by 64 or more
\* panics with overflow checks and shifts by square mod 64 without
shift_panics(square, overflow_checks_) == overflow_checks_ /\ square >= 64

shifted_bit(square) == {square % 64}

\* the four promotion moves of one pawn step, in PROMOTION_PIECES order
promotion_moves(source, target, piece, s, flags) ==
  [i \in 1..4 |-> encode_move(source, target, piece, PROMOTION_PIECES[i] + s * 6, flags)]

\* pawn_pushes with the double push tested outside the single push's test
pawn_pushes_jump(e, source, piece) ==
  LET s              == e.side
      all_pieces     == get_occupancy(e.bitboards, range_ALL)
      start_rank     == IF s = WHITE THEN RANK_2 ELSE RANK_7
      promotion_rank == IF s = WHITE THEN RANK_7 ELSE RANK_2
      push           == IF s = WHITE THEN -8 ELSE 8
      target         == source + push
      double         == target + push
  IN  (IF get_bit(all_pieces, target) THEN <<>>
       ELSE IF source \in promotion_rank
         THEN promotion_moves(source, target, piece, s, 0)
         ELSE <<encode_move(source, target, piece, 0, 0)>>)
      \o
      (IF source \in start_rank /\ ~get_bit(all_pieces, double)
         THEN <<encode_move(source, double, piece, 0, DOUBLE)>>
         ELSE <<>>)

pawn_pushes(e, source, piece) ==
  LET s              == e.side
      all_pieces     == get_occupancy(e.bitboards, range_ALL)
      start_rank     == IF s = WHITE THEN RANK_2 ELSE RANK_7
      promotion_rank == IF s = WHITE THEN RANK_7 ELSE RANK_2
      push           == IF s = WHITE THEN -8 ELSE 8
      target         == source + push
      double         == target + push
  IN  IF get_bit(all_pieces, target) THEN <<>>
      ELSE (IF source \in promotion_rank
              THEN promotion_moves(source, target, piece, s, 0)
              ELSE <<encode_move(source, target, piece, 0, 0)>>)
           \o
           (IF source \in start_rank /\ ~get_bit(all_pieces, double)
              THEN <<encode_move(source, double, piece, 0, DOUBLE)>>
              ELSE <<>>)

\* the moves to one attacked square: the capture, then the en-passant
\* capture if bitboard!(target) & bitboard!(en_passant) != 0
pawn_attack_moves(e, source, piece, target, overflow_checks_) ==
  LET s              == e.side
      enemy_pieces   == get_occupancy(e.bitboards, side_range(1 - s))
      promotion_rank == IF s = WHITE THEN RANK_7 ELSE RANK_2
  IN  IF e.en_passant # None /\ shift_panics(e.en_passant, overflow_checks_)
        THEN Panicked
        ELSE (IF target \in enemy_pieces
                THEN IF source \in promotion_rank
                       THEN promotion_moves(source, target, piece, s, CAPTURE)
                       ELSE <<encode_move(source, target, piece, 0, CAPTURE)>>
                ELSE <<>>)
             \o
             (IF e.en_passant # None /\ target \in shifted_bit(e.en_passant)
                THEN <<encode_move(source, target, piece, 0, CAPTURE + EN_PASSANT)>>
                ELSE <<>>)

pawn_moves(e, source, piece, overflow_checks_) ==
  LET attacks == lsb_order(get_pawn_attacks(e.side, source))
  IN  Joined(<<pawn_pushes(e, source, piece)>>
               \o [i \in 1..Len(attacks) |->
                      pawn_attack_moves(e, source, piece, attacks[i], overflow_checks_)])

\* the pawn loop breaks at the first pawn standing on its last rank
pawn_sources(e) ==
  LET end_rank == IF e.side = WHITE THEN RANK_8 ELSE RANK_1
      sources  == lsb_order(e.bitboards[PAWN + e.side * 6])
      stop     == {i \in 1..Len(sources) : sources[i] \in end_rank}
      n        == IF stop = {} THEN Len(sources) ELSE get_lsb(stop) - 1
  IN  SubSeq(sources, 1, n)

generate_pawn_moves(e, overflow_checks_) ==
  LET sources == pawn_sources(e)
  IN  Joined([i \in 1..Len(sources) |->
                pawn_moves(e, sources[i], PAWN + e.side * 6, overflow_checks_)])

\* -- generate_moves: castling

\* king_side_castle without the test of the square the king passes over
king_side_castle_no_pass_test(e) ==
  LET s           == e.side
      all_pieces  == get_occupancy(e.bitboards, range_ALL)
      king_square == IF s = WHITE THEN E1 ELSE E8
      king_target == IF s = WHITE THEN G1 ELSE G8
      king_empty  == IF s = WHITE THEN <<F1, G1>> ELSE <<F8, G8>>
      king_mask   == IF s = WHITE THEN WK ELSE BK
  IN  IF /\ can_castle(e.castling, king_mask)
         /\ \A i \in 1..2 : ~get_bit(all_pieces, king_empty[i])
         /\ ~is_square_attacked(e.bitboards, king_square, s)
        THEN <<encode_move(king_square, king_target, KING + s * 6, 0, CASTLE)>>
        ELSE <<>>

king_side_castle(e) ==
  LET s           == e.side
      all_pieces  == get_occupancy(e.bitboards, range_ALL)
      king_square == IF s = WHITE THEN E1 ELSE E8
      king_target == IF s = WHITE THEN G1 ELSE G8
      king_empty  == IF s = WHITE THEN <<F1, G1>> ELSE <<F8, G8>>
      king_mask   == IF s = WHITE THEN WK ELSE BK
  IN  IF /\ can_castle(e.castling, king_mask)
         /\ \A i \in 1..2 : ~get_bit(all_pieces, king_empty[i])
         /\ ~is_square_attacked(e.bitboards, king_square, s)
         /\ ~is_square_attacked(e.bitboards, king_empty[1], s)
        THEN <<encode_move(king_square, king_target, KING + s * 6, 0, CASTLE)>>
        ELSE <<>>

queen_side_castle(e) ==
  LET s            == e.side
      all_pieces   == get_occupancy(e.bitboards, range_ALL)
      king_square  == IF s = WHITE THEN E1 ELSE E8
      queen_target == IF s = WHITE THEN C1 ELSE C8
      queen_empty  == IF s = WHITE THEN <<D1, C1, B1>> ELSE <<D8, C8, B8>>
      queen_mask   == IF s = WHITE THEN WQ ELSE BQ
  IN  IF /\ can_castle(e.castling, queen_mask)
         /\ \A i \in 1..3 : ~get_bit(all_pieces, queen_empty[i])
         /\ ~is_square_attacked(e.bitboards, king_square, s)
         /\ ~is_square_attacked(e.bitboards, queen_empty[1], s)
        THEN <<encode_move(king_square, queen_target, KING + s * 6, 0, CASTLE)>>
        ELSE <<>>

\* -- generate_moves: knights, bishops, rooks, queens, king

piece_attacks(e, piece_type, source) ==
  LET all_pieces      == get_occupancy(e.bitboards, range_ALL)
      friendly_pieces == get_occupancy(e.bitboards, side_range(e.side))
      attacks == CASE piece_type = KNIGHT -> get_knight_attacks(source)
                   [] piece_type = KING   -> get_king_attacks(source)
                   [] piece_type = BISHOP -> get_bishop_attacks(source, all_pieces)
                   [] piece_type = ROOK   -> get_rook_attacks(source, all_pieces)
                   [] piece_type = QUEEN  -> get_queen_attacks(source, all_pieces)
  IN  attacks \ friendly_pieces

\* piece_moves with the capture flag never set
piece_moves_no_capture_flag(e, piece_type, source) ==
  LET targets == lsb_order(piece_attacks(e, piece_type, source))
      piece   == piece_type + e.side * 6
  IN  [i \in 1..Len(targets) |-> encode_move(source, targets[i], piece, 0, 0)]

piece_moves(e, piece_type, source) ==
  LET enemy_pieces == get_occupancy(e.bitboards, side_range(1 - e.side))
      targets      == lsb_order(piece_attacks(e, piece_type, source))
      piece        == piece_type + e.side * 6
  IN  [i \in 1..Len(targets) |->
         IF targets[i] \in enemy_pieces
           THEN encode_move(source, targets[i], piece, 0, CAPTURE)
           ELSE encode_move(source, targets[i], piece, 0, 0)]

generate_piece_moves(e, piece_type) ==
  LET sources == lsb_order(e.bitboards[piece_type + e.side * 6])
  IN  (IF piece_type = KING THEN king_side_castle(e) \o queen_side_castle(e) ELSE <<>>)
        \o Flatten([i \in 1..Len(sources) |-> piece_moves(e, piece_type, sources[i])])

\* the list of moves, or Panicked
generate_moves(e, overflow_checks_) ==
  Joined(<<generate_pawn_moves(e, overflow_checks_)>>
           \o [piece_type \in KNIGHT..KING |-> generate_piece_moves(e, piece_type)])

\* -- make_move / take_back

\* clear_bit!(bitboards[piece], source); set_bit!(bitboards[piece], target)
move_piece(bbs, piece, source, target) ==
  [bbs EXCEPT ![piece] = set_bit(clear_bit(@, source), target)]

\* the captured piece, if the capture flag is set and an enemy stands on target
captured_piece(bbs, s, target, capture) ==
  IF capture THEN get_piece(bbs, 1 - s, target) ELSE None

\* remove_captured that leaves the captured piece on the board
keep_captured(bbs, captured, target) == bbs

remove_captured(bbs, captured, target) ==
  IF captured # None THEN [bbs EXCEPT ![captured] = clear_bit(@, target)] ELSE bbs

place_promotion(bbs, piece, promotion, target) ==
  IF promotion # 0
    THEN [bbs EXCEPT ![piece] = clear_bit(@, target),
                     ![promotion] = set_bit(@, target)]
    ELSE bbs

pawn_offset(s) == IF s = WHITE THEN 8 ELSE -8

remove_en_passant(bbs, s, target, en_passant_flag) ==
  LET enemy_pawn == IF s = WHITE THEN BLACK_PAWN ELSE WHITE_PAWN
  IN  IF en_passant_flag
        THEN [bbs EXCEPT ![enemy_pawn] = clear_bit(@, target + pawn_offset(s))]
        ELSE bbs

\* new_en_passant with the offset's sign reversed
new_en_passant_ahead(s, target, double) ==
  IF double THEN target - pawn_offset(s) ELSE None

new_en_passant(s, target, double) ==
  IF double THEN target + pawn_offset(s) ELSE None

castle_rook(bbs, s, target, castle) ==
  LET rook         == IF s = WHITE THEN WHITE_ROOK ELSE BLACK_ROOK
      king_target  == IF s = WHITE THEN G1 ELSE G8
      queen_target == IF s = WHITE THEN C1 ELSE C8
      king_start   == IF s = WHITE THEN H1 ELSE H8
      king_end     == IF s = WHITE THEN F1 ELSE F8
      queen_start  == IF s = WHITE THEN A1 ELSE A8
      queen_end    == IF s = WHITE THEN D1 ELSE D8
  IN  IF ~castle THEN bbs
      ELSE IF target = king_target
        THEN [bbs EXCEPT ![rook] = set_bit(clear_bit(@, king_start), king_end)]
      ELSE IF target = queen_target
        THEN [bbs EXCEPT ![rook] = set_bit(clear_bit(@, queen_start), queen_end)]
      ELSE bbs

\* update_castling without the target square's mask
update_castling_source_only(castling_, source, target) ==
  BitAnd4(castling_, CASLTING_RIGHTS[source])

update_castling(castling_, source, target) ==
  BitAnd4(BitAnd4(castling_, CASLTING_RIGHTS[source]), CASLTING_RIGHTS[target])

\* full_moves = half_moves / 2 + 1
full_moves_of(half_moves_) == half_moves_ \div 2 + 1

\* make_move up to the legality test (mod.rs 375-455). half_moves += 1 is
\* u8 arithmetic: at 255 it wraps to 0 without overflow checks; with them
\* the call panics there (make_move_panics), everything before line 454
\* done
apply_move(e, m) ==
  LET d        == decode_move(m)
      s        == e.side
      moved    == move_piece(e.bitboards, d.piece, d.source, d.target)
      captured == captured_piece(moved, s, d.target, d.capture)
      item     == [move_      |-> m,
                   captured   |-> IF captured # None THEN captured ELSE 0,
                   side       |-> e.side,
                   castling   |-> e.castling,
                   en_passant |-> e.en_passant]
      taken    == remove_captured(moved, captured, d.target)
      promoted == place_promotion(taken, d.piece, d.promotion, d.target)
      passed   == remove_en_passant(promoted, s, d.target, d.en_passant)
      castled  == castle_rook(passed, s, d.target, d.castle)
      half     == (e.half_moves + 1) % 256
  IN  [bitboards  |-> castled,
       side       |-> 1 - s,
       castling   |-> update_castling(e.castling, d.source, d.target),
       en_passant |-> new_en_passant(s, d.target, d.double),
       half_moves |-> half,
       full_moves |-> full_moves_of(half),
       history    |-> Append(e.history, item)]

restore_piece(bbs, piece, promotion, source, target) ==
  LET back == [bbs EXCEPT ![piece] = set_bit(clear_bit(@, target), source)]
  IN  IF promotion # 0
        THEN [back EXCEPT ![promotion] = clear_bit(@, target)]
        ELSE back

\* take_back that puts no captured piece back
restore_captured_never(bbs, s, captured, target, capture_flag, en_passant_flag) == bbs

\* s is the side to move when take_back runs (the enemy of the mover)
restore_captured(bbs, s, captured, target, capture_flag, en_passant_flag) ==
  IF en_passant_flag
    THEN IF s = WHITE
           THEN [bbs EXCEPT ![WHITE_PAWN] = set_bit(@, target - 8)]
           ELSE [bbs EXCEPT ![BLACK_PAWN] = set_bit(@, target + 8)]
  ELSE IF capture_flag
    THEN [bbs EXCEPT ![captured] = set_bit(@, target)]
  ELSE bbs

uncastle_rook(bbs, s, target, castle_flag) ==
  LET rook         == IF s = WHITE THEN WHITE_ROOK ELSE BLACK_ROOK
      king_target  == IF s = WHITE THEN G1 ELSE G8
      queen_target == IF s = WHITE THEN C1 ELSE C8
      king_start   == IF s = WHITE THEN H1 ELSE H8
      king_end     == IF s = WHITE THEN F1 ELSE F8
      queen_start  == IF s = WHITE THEN A1 ELSE A8
      queen_end    == IF s = WHITE THEN D1 ELSE D8
  IN  IF ~castle_flag THEN bbs
      ELSE IF target = king_target
        THEN [bbs EXCEPT ![rook] = set_bit(clear_bit(@, king_end), king_start)]
      ELSE IF target = queen_target
        THEN [bbs EXCEPT ![rook] = set_bit(clear_bit(@, queen_end), queen_start)]
      ELSE bbs

take_back(e) ==
  LET item     == e.history[Len(e.history)]
      d        == decode_move(item.move_)
      restored == restore_piece(e.bitboards, d.piece, d.promotion, d.source, d.target)
      returned == restore_captured(restored, e.side, item.captured, d.target,
                                   d.capture, d.en_passant)
      rooked   == uncastle_rook(returned, item.side, d.target, d.castle)
      half     == (e.half_moves - 1) % 256
  IN  [bitboards  |-> rooked,
       side       |-> item.side,
       castling   |-> item.castling,
       en_passant |-> item.en_passant,
       half_moves |-> half,
       full_moves |-> full_moves_of(half),
       history    |-> SubSeq(e.history, 1, Len(e.history) - 1)]

king_of(s) == IF s = WHITE THEN WHITE_KING ELSE BLACK_KING

\* half_moves += 1 overflows (mod.rs 454)
make_move_panics(e, overflow_checks_) == add_u8(e.half_moves, 1, overflow_checks_) = Panic

\* the engine when make_move panics at line 454: the history item pushed,
\* the pieces moved, en_passant, castling and side set, the clocks not yet
interrupted_move(e, after) ==
  [after EXCEPT !.half_moves = e.half_moves, !.full_moves = e.full_moves]

\* a legality test that never rejects
never_attacked(e, after) == FALSE

\* the mover's king is attacked after the move (mod.rs 448-456)
leaves_king_attacked(e, after) ==
  is_square_attacked(after.bitboards, get_lsb(after.bitboards[king_of(e.side)]), e.side)

\* the mover has no king: get_lsb! gives 64 and is_square_attacked indexes
\* the attack tables past their end (mod.rs 448-456)
king_missing(e, after) == after.bitboards[king_of(e.side)] = {}

\* ok is what make_move returns, e the engine after it; panic: the call
\* did not return
make_move(e, m, overflow_checks_) ==
  LET after == apply_move(e, m)
  IN  IF make_move_panics(e, overflow_checks_)
        THEN [ok |-> FALSE, panic |-> TRUE, e |-> interrupted_move(e, after)]
      ELSE IF king_missing(e, after)
        THEN [ok |-> FALSE, panic |-> TRUE, e |-> after]
      ELSE IF leaves_king_attacked(e, after)
        THEN [ok |-> FALSE, panic |-> FALSE, e |-> take_back(after)]
        ELSE [ok |-> TRUE, panic |-> FALSE, e |-> after]

\* -- set_position, parse_move, load_moves, moves::format

position_of(e) ==
  [bitboards  |-> e.bitboards,
   side       |-> e.side,
   castling   |-> e.castling,
   en_passant |-> e.en_passant,
   half_moves |-> e.half_moves,
   full_moves |-> e.full_moves]

\* Engine::print ends with index_to_algebraic(en_passant): 8 - index / 8
\* overflows from index 72 on
print_panics(e, overflow_checks_) ==
  overflow_checks_ /\ e.en_passant # None /\ e.en_passant >= 72

\* set_position on an error clears the board before it returns
set_position_clear_first(e, fen, overflow_checks_) ==
  LET r == fen_parse(fen, overflow_checks_)
  IN  IF r.ok THEN [ok |-> TRUE, panic |-> FALSE, err |-> "", e |-> with_state(r.state, <<>>)]
      ELSE [ok |-> FALSE, panic |-> r.panic, err |-> r.err,
            e |-> [e EXCEPT !.history = <<>>, !.bitboards = [p \in 0..11 |-> {}]]]

\* history.clear(); state = fen::parse(fen)?; print()
set_position(e, fen, overflow_checks_) ==
  LET r       == fen_parse(fen, overflow_checks_)
      cleared == [e EXCEPT !.history = <<>>]
      loaded  == with_state(r.state, <<>>)
  IN  IF r.ok
        THEN [ok |-> TRUE, panic |-> print_panics(loaded, overflow_checks_), err |-> "",
              e |-> loaded]
        ELSE [ok |-> FALSE, panic |-> r.panic, err |-> r.err, e |-> cleared]

\* chars.by_ref().take(2): the next two characters, or as many as are left
take_2(chars, from) ==
  SubSeq(chars, from, IF Len(chars) < from + 1 THEN Len(chars) ELSE from + 1)

\* the loop of parse_move over the generated moves: the first move with
\* the token's source and target whose moved piece is the piece named by the
\* fifth character, if the token has one that names a piece
find_move(moves, source, target, piece) ==
  IF source = Panic \/ target = Panic \/ moves = Panicked
    THEN [panic |-> TRUE, value |-> None]
  ELSE [panic |-> FALSE,
        value |-> Head(SelectSeq(moves,
                                 LAMBDA m : /\ decode_move(m).source = source
                                            /\ decode_move(m).target = target
                                            /\ (piece = None \/ piece = decode_move(m).piece))
                       \o <<None>>)]

parse_move(e, move_, overflow_checks_) ==
  find_move(generate_moves(e, overflow_checks_),
            algebraic_to_index(take_2(move_, 1), overflow_checks_),
            algebraic_to_index(take_2(move_, 3), overflow_checks_),
            IF Len(move_) >= 5 THEN parse_piece(move_[5]) ELSE None)

\* println!("Invalid move: {}", move_)
invalid_move_line(move_) == [text |-> "Invalid move: ", token |-> move_]

\* make_move(move_); print(): the result of make_move is not looked at, and
\* the loop ends where either call panics
load_moves_made(r, made, overflow_checks_) ==
  [r EXCEPT !.e = made.e,
            !.panic = made.panic \/ print_panics(made.e, overflow_checks_),
            !.returned = made.panic \/ print_panics(made.e, overflow_checks_)]

\* the body of the loop of load_moves once the token is parsed: make_move
\* and print, or the report and the return. What the board prints write is
\* left out of the lines.
load_moves_parsed(r, move_, parsed, overflow_checks_) ==
  IF parsed.panic THEN [r EXCEPT !.panic = TRUE, !.returned = TRUE]
  ELSE IF parsed.value = None
    THEN [r EXCEPT !.lines = Append(@, invalid_move_line(move_)), !.returned = TRUE]
  ELSE load_moves_made(r, make_move(r.e, parsed.value, overflow_checks_), overflow_checks_)

\* one turn of the loop, if load_moves has not returned
load_moves_step(r, move_, overflow_checks_) ==
  IF r.returned THEN r
  ELSE load_moves_parsed(r, move_, parse_move(r.e, move_, overflow_checks_),
                         overflow_checks_)

load_moves(e, moves, overflow_checks_) ==
  LET after[n \in 0..Len(moves)] ==
        IF n = 0
          THEN [e |-> [e EXCEPT !.history = <<>>], lines |-> <<>>, panic |-> FALSE,
                returned |-> FALSE]
          ELSE load_moves_step(after[n - 1], moves[n], overflow_checks_)
  IN  after[Len(moves)]

\* moves::format
moves_format(m) ==
  LET d == decode_move(m)
  IN  index_to_algebraic(d.source) \o index_to_algebraic(d.target)
        \o (IF d.promotion # 0 THEN <<ASCII_PIECES[d.promotion]>> ELSE <<>>)

\* ------------------------------------------------------------ positions

\* rnbqkbnr/pppppppp/8/8/8/8/PPPPPPPP/RNBQKBNR w KQkq - 0 1  (uci.rs)
START_POSITION ==
  << <<"r", "n", "b", "q", "k", "b", "n", "r", "/", "p", "p", "p", "p", "p", "p", "p", "p", "/", "8", "/", "8", "/", "8", "/", "8", "/", "P", "P", "P", "P", "P", "P", "P", "P", "/", "R", "N", "B", "Q", "K", "B", "N", "R">>,
     <<"w">>,
     <<"K", "Q", "k", "q">>,
     <<"-">>,
     <<"0">>,
     <<"1">> >>

\* r3k2r/p1ppqpb1/bn2pnp1/3PN3/1p2P3/2N2Q1p/PPPBBPPP/R3K2R w KQkq - 0 1  (uci.rs)
KIWIPETE_POSITION ==
  << <<"r", "3", "k", "2", "r", "/", "p", "1", "p", "p", "q", "p", "b", "1", "/", "b", "n", "2", "p", "n", "p", "1", "/", "3", "P", "N", "3", "/", "1", "p", "2", "P", "3", "/", "2", "N", "2", "Q", "1", "p", "/", "P", "P", "P", "B", "B", "P", "P", "P", "/", "R", "3", "K", "2", "R">>,
     <<"w">>,
     <<"K", "Q", "k", "q">>,
     <<"-">>,
     <<"0">>,
     <<"1">> >>

\* 8/2p5/3p4/KP5r/1R3p1k/8/4P1P1/8 w - - 0 1  (perft suite)
POSITION_3 ==
  << <<"8", "/", "2", "p", "5", "/", "3", "p", "4", "/", "K", "P", "5", "r", "/", "1", "R", "3", "p", "1", "k", "/", "8", "/", "4", "P", "1", "P", "1", "/", "8">>,
     <<"w">>,
     <<"-">>,
     <<"-">>,
     <<"0">>,
     <<"1">> >>

\* rnbq1rk1/ppp1nppp/4p3/b2pP3/3P4/2PB1N2/PP3PPP/RNBQK2R w KQ - 5 7  (main.rs)
GREEK_GIFT ==
  << <<"r", "n", "b", "q", "1", "r", "k", "1", "/", "p", "p", "p", "1", "n", "p", "p", "p", "/", "4", "p", "3", "/", "b", "2", "p", "P", "3", "/", "3", "P", "4", "/", "2", "P", "B", "1", "N", "2", "/", "P", "P", "3", "P", "P", "P", "/", "R", "N", "B", "Q", "K", "2", "R">>,
     <<"w">>,
     <<"K", "Q">>,
     <<"-">>,
     <<"5">>,
     <<"7">> >>

\* rnbqkb1r/pp1p1pPp/8/2p1pP2/1P1P4/3P3P/P1P1P3/RNBQKBNR w KQkq e6 0 1  (main.rs)
KILLER_POSITION ==
  << <<"r", "n", "b", "q", "k", "b", "1", "r", "/", "p", "p", "1", "p", "1", "p", "P", "p", "/", "8", "/", "2", "p", "1", "p", "P", "2", "/", "1", "P", "1", "P", "4", "/", "3", "P", "3", "P", "/", "P", "1", "P", "1", "P", "3", "/", "R", "N", "B", "Q", "K", "B", "N", "R">>,
     <<"w">>,
     <<"K", "Q", "k", "q">>,
     <<"e", "6">>,
     <<"0">>,
     <<"1">> >>

\* r3k2r/8/8/8/8/8/8/R3K2R w KQkq - 0 1
ROOKS_POSITION ==
  << <<"r", "3", "k", "2", "r", "/", "8", "/", "8", "/", "8", "/", "8", "/", "8", "/", "8", "/", "R", "3", "K", "2", "R">>,
     <<"w">>,
     <<"K", "Q", "k", "q">>,
     <<"-">>,
     <<"0">>,
     <<"1">> >>

\* 1n2kr2/P7/8/3pP3/7p/8/6P1/4K3 w - d6 0 7
WHITE_PAWNS ==
  << <<"1", "n", "2", "k", "r", "2", "/", "P", "7", "/", "8", "/", "3", "p", "P", "3", "/", "7", "p", "/", "8", "/", "6", "P", "1", "/", "4", "K", "3">>,
     <<"w">>,
     <<"-">>,
     <<"d", "6">>,
     <<"0">>,
     <<"7">> >>

\* 4k3/6p1/8/7P/3Pp3/8/p7/1N2KR2 b - d3 0 9
BLACK_PAWNS ==
  << <<"4", "k", "3", "/", "6", "p", "1", "/", "8", "/", "7", "P", "/", "3", "P", "p", "3", "/", "8", "/", "p", "7", "/", "1", "N", "2", "K", "R", "2">>,
     <<"b">>,
     <<"-">>,
     <<"d", "3">>,
     <<"0">>,
     <<"9">> >>

\* 4k3/Pp6/8/8/8/8/8/4K3 w - b8 0 1: no pawn on rank 1 or 8, and an
\* en-passant square on rank 8, which fen::parse takes as it takes any
\* square
EN_PASSANT_RANK_8 ==
  << <<"4", "k", "3", "/", "P", "p", "6", "/", "8", "/", "8", "/", "8", "/", "8", "/", "8", "/", "4", "K", "3">>,
     <<"w">>,
     <<"-">>,
     <<"b", "8">>,
     <<"0">>,
     <<"1">> >>

\* ------------------------------------------------------------ state

VARIABLES
  bitboards,    \* EngineState.bitboards: [0..11 -> SUBSET Squares]
  side,         \* EngineState.side
  castling,     \* EngineState.castling
  en_passant,   \* EngineState.en_passant (None or a square)
  half_moves,   \* EngineState.half_moves
  full_moves,   \* EngineState.full_moves
  history,      \* Engine.history
  root,         \* the FEN the engine was constructed from
  last,         \* the last operation and what it returned
  frames,       \* the perft_driver, or negamax and quiescence, activations,
                \* innermost last
  perft,        \* the running perft case and its result
  search,       \* Engine's search scratch: search_ply, search_nodes, killer_moves,
                \* history_moves, pv_length, pv_table
  out,          \* what the last call returned, the number of calls, and the lines
                \* printed: by the last text call, or by all searches so far
  overflow_checks  \* the build: TRUE with overflow checks (debug), FALSE without (release)

vars == <<bitboards, side, castling, en_passant, half_moves, full_moves,
          history, root, last, frames, perft, search, out, overflow_checks>>

Engine ==
  [bitboards  |-> bitboards,
   side       |-> side,
   castling   |-> castling,
   en_passant |-> en_passant,
   half_moves |-> half_moves,
   full_moves |-> full_moves,
   history    |-> history]

SetEngine(e) ==
  /\ bitboards'  = e.bitboards
  /\ side'       = e.side
  /\ castling'   = e.castling
  /\ en_passant' = e.en_passant
  /\ half_moves' = e.half_moves
  /\ full_moves' = e.full_moves
  /\ history'    = e.history

\* the arrays of the search scratch hold u32 words that start at 0: an
\* array is kept as its sizes and the map of its non-zero cells. The index
\* of an array of one dimension is a number, of two a pair.
zeroed(sizes) == [sizes |-> sizes, cells |-> <<>>]

\* an index past the end of the array: the access panics, overflow checks
\* or none
out_of_bounds(array, index) ==
  IF Len(array.sizes) = 1
    THEN index \notin 0..(array.sizes[1] - 1)
    ELSE \E d \in 1..Len(array.sizes) : index[d] \notin 0..(array.sizes[d] - 1)

\* array[index], or Panic
at(array, index) ==
  IF out_of_bounds(array, index) THEN Panic
  ELSE IF index \in DOMAIN array.cells THEN array.cells[index] ELSE 0

\* the cells after cells[index] = value
put_cell(cells, index, value) ==
  LET keys == IF value = 0 THEN DOMAIN cells \ {index} ELSE DOMAIN cells \cup {index}
  IN  [k \in keys |-> IF k = index THEN value ELSE cells[k]]

\* the array after array[index] = value, or Panic
put(array, index, value) ==
  IF out_of_bounds(array, index) THEN Panic
  ELSE [array EXCEPT !.cells = put_cell(@, index, value)]

\* Engine::new: the search scratch
new_search ==
  [search_ply    |-> 0,
   search_nodes  |-> 0,
   killer_moves  |-> zeroed(<<2, 64>>),
   history_moves |-> zeroed(<<12, 64>>),
   pv_length     |-> zeroed(<<64>>),
   pv_table      |-> zeroed(<<64, 64>>)]

\* nothing returned or printed yet
no_output == [ok |-> TRUE, panic |-> FALSE, value |-> None, lines |-> <<>>, calls |-> 0]

InitEngine(fen) ==
  LET e == Engine_new(fen)
  IN  /\ bitboards  = e.bitboards
      /\ side       = e.side
      /\ castling   = e.castling
      /\ en_passant = e.en_passant
      /\ half_moves = e.half_moves
      /\ full_moves = e.full_moves
      /\ history    = e.history

SeqToSet(seq) == {seq[i] : i \in 1..Len(seq)}

\* ------------------------------------------------------------ game

\* Positions explored to MaxPly plies, and the larger positions of main.rs and
\* uci.rs explored to ProbePly plies.
MaxPly == 2

ProbePly == 1

GamePositions == {ROOKS_POSITION, WHITE_PAWNS, BLACK_PAWNS, EN_PASSANT_RANK_8}

ProbePositions == {KIWIPETE_POSITION, GREEK_GIFT, KILLER_POSITION}

ply_bound == IF root \in ProbePositions THEN ProbePly ELSE MaxPly

Init ==
  /\ root \in GamePositions \cup ProbePositions
  /\ InitEngine(root)
  /\ last = [op |-> "init", move_ |-> 0, ok |-> TRUE]
  /\ frames = <<>>
  /\ perft = [done |-> FALSE, nodes |-> 0]
  /\ search = new_search
  /\ out = no_output
  /\ overflow_checks = TRUE

\* make_move on a move of generate_moves
MakeMove(m) ==
  /\ ~out.panic
  /\ LET r == make_move(Engine, m, overflow_checks)
     IN  /\ SetEngine(r.e)
         /\ last' = [op |-> "make_move", move_ |-> m, ok |-> r.ok]
         /\ out' = [out EXCEPT !.panic = r.panic]
  /\ UNCHANGED <<root, frames, perft, search, overflow_checks>>

TakeBack ==
  /\ ~out.panic
  /\ history # <<>>
  /\ SetEngine(take_back(Engine))
  /\ last' = [op |-> "take_back", move_ |-> history[Len(history)].move_, ok |-> TRUE]
  /\ UNCHANGED <<root, frames, perft, search, out, overflow_checks>>

\* the moves of a generated list
MoveSet(generated) == IF generated = Panicked THEN {} ELSE SeqToSet(generated)

Next ==
  \/ /\ Len(history) < ply_bound
     /\ \E m \in MoveSet(generate_moves(Engine, overflow_checks)) : MakeMove(m)
  \/ TakeBack

Spec == Init /\ [][Next]_vars

\* ------------------------------------------------------------ perft

\* perft_driver(depth) is run as its activation records: each holds the
\* depth, the generated move list, the position in the loop and the node
\* count so far.
PerftCases ==
  { [fen |-> START_POSITION,    depth |-> 1, nodes |-> 20],
    [fen |-> START_POSITION,    depth |-> 2, nodes |-> 400],
    [fen |-> START_POSITION,    depth |-> 3, nodes |-> 8902],
    [fen |-> KIWIPETE_POSITION, depth |-> 1, nodes |-> 48],
    [fen |-> KIWIPETE_POSITION, depth |-> 2, nodes |-> 2039],
    [fen |-> KIWIPETE_POSITION, depth |-> 3, nodes |-> 97862],
    [fen |-> POSITION_3,        depth |-> 1, nodes |-> 14],
    [fen |-> POSITION_3,        depth |-> 2, nodes |-> 191],
    [fen |-> POSITION_3,        depth |-> 3, nodes |-> 2812] }

\* the activation of perft_driver(depth), or of Engine::perft(depth), which
\* generates the moves at depth 0 as well
new_frame(fn, e, depth, overflow_checks_) ==
  [fn    |-> fn,
   depth |-> depth,
   moves |-> IF fn = "perft_driver" /\ depth = 0 THEN <<>>
             ELSE generate_moves(e, overflow_checks_),
   i     |-> 1,
   nodes |-> 0]

InitPerft ==
  \E c \in PerftCases :
    /\ root = c.fen
    /\ InitEngine(c.fen)
    /\ last = [op |-> "init", move_ |-> 0, ok |-> TRUE]
    /\ frames = <<new_frame("perft_driver", Engine_new(c.fen), c.depth, TRUE)>>
    /\ perft = [depth |-> c.depth, expected |-> c.nodes, done |-> FALSE, nodes |-> 0]
    /\ search = new_search
    /\ out = no_output
    /\ overflow_checks = TRUE

top == frames[Len(frames)]

\* one iteration of the loop: make_move(move_) and, if it is accepted, the
\* recursive call
\* the loop of the activation is over
loop_over(f) == (f.fn = "perft_driver" /\ f.depth = 0) \/ f.i > Len(f.moves)

PerftMake ==
  /\ frames # <<>>
  /\ ~out.panic
  /\ top.fn = "perft_driver"
  /\ ~loop_over(top)
  /\ \E r \in {make_move(Engine, top.moves[top.i], overflow_checks)} :
       /\ SetEngine(r.e)
       /\ last' = [op |-> "make_move", move_ |-> top.moves[top.i], ok |-> r.ok]
       /\ IF r.ok
            THEN \E called \in {new_frame("perft_driver", r.e, top.depth - 1,
                                            overflow_checks)} :
                   /\ frames' = Append(frames, called)
                   /\ out' = [out EXCEPT !.panic = called.moves = Panicked]
            ELSE /\ frames' = IF r.panic THEN frames
                              ELSE [frames EXCEPT ![Len(frames)].i = @ + 1]
                 /\ out' = [out EXCEPT !.panic = r.panic]
  /\ UNCHANGED <<root, perft, search, overflow_checks>>

\* the value perft_driver returns from the innermost activation
frame_result(f) == IF f.depth = 0 THEN 1 ELSE f.nodes

\* return into the caller: nodes += result; take_back()
PerftReturn ==
  /\ Len(frames) > 1
  /\ ~out.panic
  /\ frames[Len(frames) - 1].fn = "perft_driver"
  /\ loop_over(top)
  /\ LET caller == Len(frames) - 1
     IN  frames' = [SubSeq(frames, 1, caller) EXCEPT
                      ![caller].nodes = @ + frame_result(top),
                      ![caller].i = @ + 1]
  /\ SetEngine(take_back(Engine))
  /\ last' = [op |-> "take_back", move_ |-> history[Len(history)].move_, ok |-> TRUE]
  /\ UNCHANGED <<root, perft, search, out, overflow_checks>>

\* the outermost activation returns the count
PerftDone ==
  /\ Len(frames) = 1
  /\ ~out.panic
  /\ top.fn = "perft_driver"
  /\ loop_over(top)
  /\ perft' = [perft EXCEPT !.done = TRUE, !.nodes = frame_result(top)]
  /\ frames' = <<>>
  /\ UNCHANGED <<bitboards, side, castling, en_passant, half_moves, full_moves,
                 history, root, last, search, out, overflow_checks>>

NextPerft == PerftMake \/ PerftReturn \/ PerftDone

SpecPerft == InitPerft /\ [][NextPerft]_vars

\* -- Engine::perft, the "perft" command: the table of the root moves

\* perft(depth) is tried from TablePositions with the depths TableDepths, in
\* either build. Without overflow checks perft(0) calls perft_driver(255):
\* the run is followed while the stack is no higher than TableStack.
TableStack == 2

TableDepths == 0..2

\* the lines of the table, without the times and rates, which the clock
\* decides
divider_line == [text |-> "divider"]

table_lines == <<divider_line, [text |-> "Performance test:"], divider_line,
                 [text |-> "headers"], divider_line>>

row_line(index, move_, depth_nodes) ==
  [text |-> "row", index |-> index, move_ |-> moves_format(move_), nodes |-> depth_nodes]

total_lines(depth, nodes) ==
  <<divider_line, [text |-> "Depth: ", value |-> depth],
    [text |-> "Nodes: ", value |-> nodes], [text |-> "Time: "], [text |-> "kNPS: "],
    divider_line>>

TablePositions == {WHITE_PAWNS, BLACK_PAWNS}

InitPerftTable ==
  /\ root \in TablePositions
  /\ InitEngine(root)
  /\ last = [op |-> "init", move_ |-> 0, ok |-> TRUE]
  /\ frames = <<>>
  /\ perft = [done |-> FALSE, nodes |-> 0]
  /\ search = new_search
  /\ out = no_output
  /\ overflow_checks \in BOOLEAN

\* perft(depth) up to its loop: the head of the table and the root moves
Perft(depth) ==
  /\ frames = <<>>
  /\ ~out.panic
  /\ ~perft.done
  /\ \E called \in {new_frame("perft", Engine, depth, overflow_checks)} :
       /\ frames' = <<called>>
       /\ out' = [out EXCEPT !.lines = table_lines, !.panic = called.moves = Panicked]
  /\ last' = [op |-> "perft", move_ |-> 0, ok |-> TRUE]
  /\ perft' = [done |-> FALSE, nodes |-> 0]
  /\ UNCHANGED <<bitboards, side, castling, en_passant, half_moves, full_moves, history,
                 root, search, overflow_checks>>

\* perft_driver(depth - 1): the subtraction on a u8 overflows at depth 0
root_call_panics(depth, overflow_checks_) == sub_u8(depth, 1, overflow_checks_) = Panic

\* one turn of the loop of perft: make_move(move_) and, if it is accepted,
\* the call of perft_driver(depth - 1)
PerftRootMake ==
  /\ Len(frames) = 1
  /\ ~out.panic
  /\ top.fn = "perft"
  /\ ~loop_over(top)
  /\ \E r \in {make_move(Engine, top.moves[top.i], overflow_checks)} :
       /\ SetEngine(r.e)
       /\ last' = [op |-> "make_move", move_ |-> top.moves[top.i], ok |-> r.ok]
       /\ IF r.ok /\ ~root_call_panics(top.depth, overflow_checks)
            THEN \E called \in {new_frame("perft_driver", r.e,
                                            sub_u8(top.depth, 1, overflow_checks),
                                            overflow_checks)} :
                   /\ frames' = Append(frames, called)
                   /\ out' = [out EXCEPT !.panic = called.moves = Panicked]
            ELSE /\ frames' = IF r.ok \/ r.panic THEN frames
                              ELSE [frames EXCEPT ![Len(frames)].i = @ + 1]
                 /\ out' = [out EXCEPT !.panic = r.ok \/ r.panic]
  /\ UNCHANGED <<root, perft, search, overflow_checks>>

\* perft_driver returns into perft: nodes += depth_nodes; take_back(); the
\* row of the move
PerftRow ==
  /\ Len(frames) = 2
  /\ ~out.panic
  /\ frames[1].fn = "perft"
  /\ loop_over(top)
  /\ frames' = <<[frames[1] EXCEPT !.nodes = @ + frame_result(top), !.i = @ + 1]>>
  /\ out' = [out EXCEPT !.lines = Append(@, row_line(frames[1].i,
                                                    frames[1].moves[frames[1].i],
                                                    frame_result(top)))]
  /\ SetEngine(take_back(Engine))
  /\ last' = [op |-> "take_back", move_ |-> history[Len(history)].move_, ok |-> TRUE]
  /\ UNCHANGED <<root, perft, search, overflow_checks>>

\* the loop of perft is over: the totals
PerftTotals ==
  /\ Len(frames) = 1
  /\ ~out.panic
  /\ top.fn = "perft"
  /\ loop_over(top)
  /\ out' = [out EXCEPT !.lines = @ \o total_lines(top.depth, top.nodes)]
  /\ perft' = [done |-> TRUE, nodes |-> top.nodes]
  /\ frames' = <<>>
  /\ UNCHANGED <<bitboards, side, castling, en_passant, half_moves, full_moves,
                 history, root, last, search, overflow_checks>>

\* the steps of perft_driver under perft
PerftDriverMake == Len(frames) <= TableStack /\ PerftMake

NextPerftTable ==
  \/ \E depth \in TableDepths : Perft(depth)
  \/ PerftRootMake
  \/ PerftRow
  \/ PerftDriverMake
  \/ PerftReturn
  \/ PerftTotals

SpecPerftTable == InitPerftTable /\ [][NextPerftTable]_vars


\* ------------------------------------------------------------ text interface

\* The calls a front end makes on the engine: set_position with a FEN,
\* load_moves with move tokens, parse_move with one token. A FEN is the list
\* of its whitespace-separated sections and a token the list of its
\* characters. At most MaxCalls calls are made.
MaxCalls == 2

TextPositions == {GREEK_GIFT, WHITE_PAWNS, BLACK_PAWNS}

\* FENs with the wrong number of sections, a bad piece character, a bad
\* side, a bad castling character, bad clocks
malformed_fens(fen) ==
  { SubSeq(fen, 1, 5),
    fen \o << <<"1">> >>,
    <<>>,
    [fen EXCEPT ![1] = <<"x">> \o @],
    [fen EXCEPT ![1] = @ \o <<"?">>],
    [fen EXCEPT ![2] = <<"x">>],
    [fen EXCEPT ![2] = <<"W">>],
    [fen EXCEPT ![3] = <<"K", "x">>],
    [fen EXCEPT ![5] = <<"x">>],
    [fen EXCEPT ![5] = <<"2", "5", "6">>],
    [fen EXCEPT ![6] = <<"-", "1">>],
    [fen EXCEPT ![6] = <<"+">>] }

MalformedFens == malformed_fens(WHITE_PAWNS) \cup malformed_fens(GREEK_GIFT)

\* en-passant fields: none, squares of the board, and fields that are no
\* square
EnPassantFields ==
  { <<"-">>, <<"d", "6">>, <<"a", "1">>, <<"h", "8">>,
    <<"e", "9">>, <<"i", "3">>, <<"e", "0">>, <<"z", "z">>, <<"z", "0">>,
    <<"E", "3">>, <<"3", "e">>, <<"e">>, <<"e", "3", "3">>, <<"é">>, <<"e", "é">> }

EnPassantFens == {[WHITE_PAWNS EXCEPT ![4] = field] : field \in EnPassantFields}

\* the largest halfmove clock fen::parse takes: the next make_move overflows it
ClockFens == {[GREEK_GIFT EXCEPT ![5] = <<"2", "5", "5">>]}

TextFens == TextPositions \cup MalformedFens \cup EnPassantFens \cup ClockFens

\* move lists for load_moves: of the Greek gift (c3c4 is a pinned pawn's
\* push), of WHITE_PAWNS (e1f1 steps into the rook's file) and of
\* BLACK_PAWNS, and e2e5, which no position here generates
LoadInputs ==
  { <<>>,
    << <<"e", "1", "g", "1">> >>,
    << <<"c", "3", "c", "4">> >>,
    << <<"c", "3", "c", "4">>, <<"e", "1", "g", "1">> >>,
    << <<"d", "3", "h", "7">>, <<"g", "8", "h", "7">> >>,
    << <<"e", "2", "e", "5">>, <<"e", "1", "g", "1">> >>,
    << <<"e", "1", "f", "1">>, <<"g", "2", "g", "4">> >>,
    << <<"g", "2", "g", "4">>, <<"h", "4", "g", "3">>, <<"e", "1", "f", "1">> >>,
    << <<"e", "5", "d", "6">>, <<"e", "8", "d", "7">> >>,
    << <<"a", "7", "a", "8", "q">>, <<"g", "2", "g", "4">> >>,
    << <<"a", "2", "a", "1", "q">> >>,
    << <<"e", "4", "d", "3">>, <<"e", "1", "d", "2">> >>,
    << <<"e", "2", "c", "3">>, <<"e", "1", "d", "1">> >> }

ParseTokens ==
  { <<"e", "1", "g", "1">>, <<"c", "3", "c", "4">>, <<"e", "5", "d", "6">>,
    <<"a", "7", "a", "8", "q">>, <<"a", "2", "a", "1", "q">>,
    <<"a", "7", "a", "8">>, <<"a", "7", "a", "8", "Q">>, <<"a", "7", "a", "8", "n">>,
    <<"a", "7", "a", "8", "P">>, <<"a", "7", "b", "8", "r">>, <<"a", "2", "a", "1", "p">>,
    <<"e", "2", "e", "4", "x">>, <<"e", "2", "e">>, <<"e", "9", "e", "4">>, <<>> }

CanCall == out.calls < MaxCalls /\ ~out.panic

\* a knight pinned on the king's file, no pawn, and an en-passant field
\* that fen::parse reads as 89
PINNED_KNIGHT ==
  << <<"4", "k", "3", "/", "8", "/", "8", "/", "8", "/", "4", "r", "3", "/", "8", "/", "4", "N", "3", "/", "4", "K", "3">>,
     <<"w">>,
     <<"-">>,
     <<"z", "0">>,
     <<"1", "0">>,
     <<"4", "0">> >>

\* the FENs an engine is constructed from
ConstructedFens == {START_POSITION, PINNED_KNIGHT}

InitText ==
  /\ root \in ConstructedFens
  /\ InitEngine(root)
  /\ last = [op |-> "init", move_ |-> 0, ok |-> TRUE]
  /\ frames = <<>>
  /\ perft = [done |-> FALSE, nodes |-> 0]
  /\ search = new_search
  /\ out = no_output
  /\ overflow_checks \in BOOLEAN

SetPosition(fen) ==
  /\ CanCall
  /\ \E r \in {set_position(Engine, fen, overflow_checks)} :
       /\ SetEngine(r.e)
       /\ root' = IF r.ok THEN fen ELSE root
       /\ last' = [op |-> "set_position", move_ |-> 0, ok |-> r.ok]
       /\ out' = [ok |-> r.ok, panic |-> r.panic, value |-> r.err, lines |-> <<>>,
                  calls |-> out.calls + 1]
  /\ UNCHANGED <<frames, perft, search, overflow_checks>>

LoadMoves(moves) ==
  /\ CanCall
  /\ \E r \in {load_moves(Engine, moves, overflow_checks)} :
       /\ SetEngine(r.e)
       /\ last' = [op |-> "load_moves", move_ |-> 0, ok |-> r.lines = <<>>]
       /\ out' = [ok |-> r.lines = <<>>, panic |-> r.panic, value |-> None,
                  lines |-> r.lines, calls |-> out.calls + 1]
  /\ UNCHANGED <<root, frames, perft, search, overflow_checks>>

ParseMove(move_) ==
  /\ CanCall
  /\ \E r \in {parse_move(Engine, move_, overflow_checks)} :
       /\ last' = [op |-> "parse_move", move_ |-> r.value, ok |-> r.value # None]
       /\ out' = [ok |-> r.value # None, panic |-> r.panic, value |-> r.value,
                  lines |-> <<>>, calls |-> out.calls + 1]
  /\ UNCHANGED <<bitboards, side, castling, en_passant, half_moves, full_moves, history,
                 root, frames, perft, search, overflow_checks>>

NextText ==
  \/ \E fen \in TextFens : SetPosition(fen)
  \/ \E moves \in LoadInputs : LoadMoves(moves)
  \/ \E move_ \in ParseTokens : ParseMove(move_)

SpecText == InitText /\ [][NextText]_vars

\* ------------------------------------------------------------ evaluation

\* engine/evaluate.rs: the material of the twelve pieces (evaluate adds the
\* entries of both sides, so Black's are negative), one piece-square table
\* per piece type other than the queen, and the two score limits.
MATERIAL_SCORES ==
  ZeroBased(<<100, 300, 350, 500, 1000, 10000, -100, -300, -350, -500, -1000, -10000>>)

PAWN_SCORE == [index \in 0..63 |-> 0]

KNIGHT_SCORE == [index \in 0..63 |-> 0]

BISHOP_SCORE == [index \in 0..63 |-> 0]

ROOK_SCORE == [index \in 0..63 |-> 0]

KING_SCORE == [index \in 0..63 |-> 0]

MATE_SCORE == 50000

MAX_SCORE == 50000

\* square ^ 0x38 mirrors the rank
get_positional_score(piece, square) ==
  LET piece_side == piece \div 6
      piece_type == piece % 6
      index == IF piece_side = WHITE THEN square
               ELSE (7 - (square \div 8)) * 8 + (square % 8)
      score == CASE piece_type = PAWN   -> PAWN_SCORE[index]
                 [] piece_type = KNIGHT -> KNIGHT_SCORE[index]
                 [] piece_type = BISHOP -> BISHOP_SCORE[index]
                 [] piece_type = ROOK   -> ROOK_SCORE[index]
                 [] piece_type = KING   -> KING_SCORE[index]
                 [] OTHER               -> 0
  IN  IF piece_side = WHITE THEN score ELSE -score

\* the while loop of evaluate over one bitboard
RECURSIVE evaluate_board(_, _)
evaluate_board(piece, copy) ==
  IF copy = {} THEN 0
  ELSE LET square == get_lsb(copy)
       IN  MATERIAL_SCORES[piece] + get_positional_score(piece, square)
             + evaluate_board(piece, copy \ {square})

RECURSIVE evaluate_from(_, _)
evaluate_from(bbs, piece) ==
  IF piece > 11 THEN 0
  ELSE evaluate_board(piece, bbs[piece]) + evaluate_from(bbs, piece + 1)

evaluate(e) ==
  LET score == evaluate_from(e.bitboards, 0)
  IN  IF e.side = WHITE THEN score ELSE -score

\* ------------------------------------------------------------ move ordering

get_mvv_lva(attacker, victim) ==
  LET attacker_value == 5 - (attacker % 6)
      victim_value   == 1 + (victim % 6)
  IN  victim_value * 100 + attacker_value

\* s is the search scratch
score_move(e, s, move_) ==
  LET d == decode_move(move_)
      found == get_piece(e.bitboards, 1 - e.side, d.target)
      target_piece == IF found = None THEN 0 ELSE found
  IN  IF d.capture THEN get_mvv_lva(d.piece, target_piece) + 10000
      ELSE IF at(s.killer_moves, <<0, s.search_ply>>) = move_ THEN 9000
      ELSE IF at(s.killer_moves, <<1, s.search_ply>>) = move_ THEN 8000
      ELSE at(s.history_moves, <<d.piece, d.target>>)

\* sort_by on the score, highest first; the sort is stable. The scores are
\* tabulated once (@@ builds the table)
sort_moves(e, s, moves) ==
  LET n     == Len(moves)
      score == [i \in 1..n |-> score_move(e, s, moves[i])] @@ <<>>
      place == [i \in 1..n |->
                  1 + Cardinality({j \in 1..n : \/ score[j] > score[i]
                                                \/ score[j] = score[i] /\ j < i})]
  IN  [k \in 1..n |-> moves[CHOOSE i \in 1..n : place[i] = k]]

\* the moves of the list that capture
captures_of(moves) ==
  IF moves = Panicked THEN Panicked
  ELSE SelectSeq(moves, LAMBDA move_ : decode_move(move_).capture)

\* generate_captures without the filter: every pseudo-legal move
generate_captures_unfiltered(e, overflow_checks_) == generate_moves(e, overflow_checks_)

generate_captures(e, overflow_checks_) == captures_of(generate_moves(e, overflow_checks_))

\* sort_moves of a generated list, if the generation returned
sorted(e, s, generated) ==
  IF generated = Panicked THEN Panicked ELSE sort_moves(e, s, generated)

\* ------------------------------------------------------------ search

\* negamax and quiescence are run as their activation records, innermost
\* last: the function, its depth argument and its depth after the check
\* extension, the window, the sorted move list and the position in the
\* loop, the count of accepted moves, and, once the function has returned
\* from inside the loop, the value returned.
new_activation(fn, arg, depth, alpha, beta, moves, in_check, ply_index, done, value) ==
  [fn          |-> fn,
   arg         |-> arg,
   depth       |-> depth,
   alpha       |-> alpha,
   beta        |-> beta,
   moves       |-> moves,
   i           |-> 1,
   legal_moves |-> 0,
   in_check    |-> in_check,
   ply_index   |-> ply_index,
   done        |-> done,
   value       |-> value]

\* the scratch and the activation at the loop; panic: the generation of
\* the moves panicked
entered_at_loop(s, frame) ==
  [search |-> s, frame |-> frame, panic |-> frame.moves = Panicked]

\* the call panicked before its loop
entered_panicked(fn, s, depth, alpha, beta) ==
  [search |-> s,
   frame  |-> new_activation(fn, depth, depth, alpha, beta, <<>>, FALSE, s.search_ply,
                             FALSE, 0),
   panic  |-> TRUE]

\* quiescence up to its loop: the stand-pat score and the sorted captures
enter_quiescence(e, s, alpha, beta, overflow_checks_) ==
  LET counted == [s EXCEPT !.search_nodes = @ + 1]
      score   == evaluate(e)
  IN  entered_at_loop(
        counted,
        IF score >= beta
          THEN new_activation("quiescence", 0, 0, alpha, beta, <<>>, FALSE,
                              s.search_ply, TRUE, beta)
          ELSE new_activation("quiescence", 0, 0,
                              IF score > alpha THEN score ELSE alpha, beta,
                              sorted(e, counted, generate_captures(e, overflow_checks_)),
                              FALSE, s.search_ply, FALSE, 0))

\* pv_length[ply_index] = ply_index, the first statement of negamax, is
\* past the end of the array from search_ply 64 on
ply_panics(s) == out_of_bounds(s.pv_length, s.search_ply)

\* negamax indexes the attack tables with get_lsb! of the bitboard of the
\* king of the side to move: trailing_zeros of an empty bitboard is 64, one
\* past the end of the 64 entries, and the index panics
king_panics(e, depth) ==
  /\ depth # 0
  /\ e.bitboards[IF e.side = WHITE THEN WHITE_KING ELSE BLACK_KING] = {}

\* the side to move is in check
in_check_(e) ==
  is_square_attacked(e.bitboards,
                     get_lsb(e.bitboards[IF e.side = WHITE THEN WHITE_KING ELSE BLACK_KING]),
                     e.side)

\* depth += 1 on a u8, for the side in check
extension_panics(e, depth, overflow_checks_) ==
  depth # 0 /\ add_u8(depth, 1, overflow_checks_) = Panic /\ in_check_(e)

\* negamax panics before its loop
negamax_panics(e, s, depth, overflow_checks_) ==
  \/ ply_panics(s)
  \/ king_panics(e, depth)
  \/ extension_panics(e, depth, overflow_checks_)

\* negamax up to its loop; at depth 0 it is quiescence
enter_negamax(e, s, depth, alpha, beta, overflow_checks_) ==
  LET ply_index == s.search_ply
      started   == [s EXCEPT !.pv_length = put(@, ply_index, ply_index)]
      in_check  == in_check_(e)
      counted   == [started EXCEPT !.search_nodes = @ + 1]
  IN  IF ply_panics(s) THEN entered_panicked("negamax", s, depth, alpha, beta)
      ELSE IF depth = 0 THEN enter_quiescence(e, started, alpha, beta, overflow_checks_)
      ELSE IF king_panics(e, depth) \/ extension_panics(e, depth, overflow_checks_)
        THEN entered_panicked("negamax", started, depth, alpha, beta)
      ELSE entered_at_loop(
             counted,
             new_activation("negamax", depth,
                            IF in_check THEN add_u8(depth, 1, overflow_checks_) ELSE depth,
                            alpha, beta,
                            sorted(e, counted, generate_moves(e, overflow_checks_)),
                            in_check, ply_index, FALSE, 0))

\* the loop is over, or the function returned from inside it
finished(f) == f.done \/ f.i > Len(f.moves)

\* no_legal_move_value with the mate score for the draw as well
no_legal_move_value_always_mate(f, s) == -MATE_SCORE + s.search_ply

\* no accepted move: the mate score from the mated side's view, or the draw
no_legal_move_value(f, s) == IF f.in_check THEN -MATE_SCORE + s.search_ply ELSE 0

\* what the activation returns once finished
return_value(f, s) ==
  IF f.done THEN f.value
  ELSE IF f.fn = "negamax" /\ f.legal_moves = 0 THEN no_legal_move_value(f, s)
  ELSE f.alpha

\* copy_line that stores the node's own move and copies nothing of the
\* child's line
copy_line_own_move_only(pv_table, pv_length, ply_index, move_) ==
  put(pv_table, <<ply_index, ply_index>>, move_)

\* the loop of copy_line reads pv_length[ply_index + 1]
copy_line_panics(pv_length, ply_index) == out_of_bounds(pv_length, ply_index + 1)

\* negamax copies the child's line behind its own move
copy_line(pv_table, pv_length, ply_index, move_) ==
  LET own    == put(pv_table, <<ply_index, ply_index>>, move_)
      copied == (ply_index + 1)..(at(pv_length, ply_index + 1) - 1)
      keys   == {k \in DOMAIN own.cells
                          \cup {<<ply_index, next_ply>> : next_ply \in copied} :
                   IF k[1] = ply_index /\ k[2] \in copied
                     THEN at(own, <<ply_index + 1, k[2]>>) # 0
                     ELSE TRUE}
  IN  IF copy_line_panics(pv_length, ply_index) THEN Panic
      ELSE [own EXCEPT !.cells = [k \in keys |-> IF k[1] = ply_index /\ k[2] \in copied
                                                   THEN own.cells[<<ply_index + 1, k[2]>>]
                                                   ELSE own.cells[k]]]

\* negamax_scored with the two killer writes in the other order: the second
\* slot receives the move itself
negamax_scored_killers_reversed(f, s, score) ==
  LET move_ == f.moves[f.i]
      d     == decode_move(move_)
      ply   == f.ply_index
  IN  IF score >= f.beta
        THEN [frame  |-> [f EXCEPT !.done = TRUE, !.value = f.beta],
              search |->
                IF d.capture THEN s
                ELSE [s EXCEPT !.killer_moves =
                        put(put(@, <<0, ply>>, move_), <<1, ply>>, move_)]]
      ELSE IF score > f.alpha
        THEN [frame  |-> [f EXCEPT !.alpha = score, !.i = @ + 1],
              search |->
                [s EXCEPT
                   !.history_moves =
                     IF d.capture THEN @
                     ELSE put(@, <<d.piece, d.target>>,
                              at(s.history_moves, <<d.piece, d.target>>) + f.depth),
                   !.pv_table  = copy_line(@, s.pv_length, ply, move_),
                   !.pv_length = put(@, ply, at(s.pv_length, ply + 1))]]
      ELSE [frame |-> [f EXCEPT !.i = @ + 1], search |-> s]

\* the loop body of negamax panics after take_back: a new best score at
\* ply 63 reads pv_length[64]
negamax_scored_panics(f, s, score) ==
  score < f.beta /\ score > f.alpha /\ copy_line_panics(s.pv_length, f.ply_index)

\* the rest of the loop body of negamax, after take_back: the caller f has
\* the child's negated score for its move
negamax_scored(f, s, score) ==
  LET move_ == f.moves[f.i]
      d     == decode_move(move_)
      ply   == f.ply_index
  IN  IF score >= f.beta
        THEN [frame  |-> [f EXCEPT !.done = TRUE, !.value = f.beta],
              search |->
                IF d.capture THEN s
                ELSE [s EXCEPT !.killer_moves =
                        put(put(@, <<1, ply>>, at(s.killer_moves, <<0, ply>>)),
                            <<0, ply>>, move_)]]
      ELSE IF score > f.alpha
        THEN [frame  |-> [f EXCEPT !.alpha = score, !.i = @ + 1],
              search |->
                [s EXCEPT
                   !.history_moves =
                     IF d.capture THEN @
                     ELSE put(@, <<d.piece, d.target>>,
                              at(s.history_moves, <<d.piece, d.target>>) + f.depth),
                   !.pv_table  = copy_line(@, s.pv_length, ply, move_),
                   !.pv_length = put(@, ply, at(s.pv_length, ply + 1))]]
      ELSE [frame |-> [f EXCEPT !.i = @ + 1], search |-> s]

\* the rest of the loop body of quiescence
quiescence_scored(f, s, score) ==
  IF score >= f.beta
    THEN [frame |-> [f EXCEPT !.done = TRUE, !.value = f.beta], search |-> s]
  ELSE IF score > f.alpha
    THEN [frame |-> [f EXCEPT !.alpha = score, !.i = @ + 1], search |-> s]
  ELSE [frame |-> [f EXCEPT !.i = @ + 1], search |-> s]

\* the lines of search_position
info_line(score, depth, nodes, nps, pv) ==
  [kind |-> "info", score |-> score, depth |-> depth, nodes |-> nodes, nps |-> nps,
   pv |-> pv]

bestmove_line(move_) ==
  [kind |-> "bestmove", score |-> 0, depth |-> 0, nodes |-> 0, nps |-> 0,
   pv |-> <<moves_format(move_)>>]

\* The searches: search_position(depth) on one of SearchPositions, at most
\* MaxSearches times, with depth up to MaxDepth. ElapsedSecs are the whole
\* seconds the clock may show when the search is over.
MaxDepth == 2

MaxSearches == 2

ElapsedSecs == {0, 1}

STALEMATE_POSITION ==
  << <<"7", "k", "/", "5", "Q", "2", "/", "6", "K", "1", "/", "8", "/", "8", "/", "8", "/", "8", "/", "8">>,
     <<"b">>,
     <<"-">>,
     <<"-">>,
     <<"0">>,
     <<"1">> >>

\* Qg7 mates, Kf7 stalemates
MATE_IN_ONE ==
  << <<"7", "k", "/", "8", "/", "5", "K", "Q", "1", "/", "8", "/", "8", "/", "8", "/", "8", "/", "8">>,
     <<"w">>,
     <<"-">>,
     <<"-">>,
     <<"0">>,
     <<"1">> >>

\* king and queen against king, the black king on the queen's file
QUEEN_POSITION ==
  << <<"4", "k", "3", "/", "8", "/", "8", "/", "8", "/", "8", "/", "8", "/", "4", "Q", "3", "/", "4", "K", "3">>,
     <<"w">>,
     <<"-">>,
     <<"-">>,
     <<"0">>,
     <<"1">> >>

SearchPositions == {STALEMATE_POSITION, MATE_IN_ONE, WHITE_PAWNS, QUEEN_POSITION}

\* 8/8/8/8/pp6/8/P1pppppp/K1kbbbbb b - - 0 1: neither king has a move while
\* the pawns stand, and the pawns of the a and b files are blocked or
\* exchanged within six plies, so that every line ends in a stalemate and a
\* search of any depth visits nine nodes
JAMMED_PAWNS ==
  << <<"8", "/", "8", "/", "8", "/", "8", "/", "p", "p", "6", "/", "8", "/", "P", "1", "p", "p", "p", "p", "p", "p", "/", "K", "1", "k", "b", "b", "b", "b", "b">>,
     <<"b">>,
     <<"-">>,
     <<"-">>,
     <<"0">>,
     <<"1">> >>

\* the depth of the "go depth" commands given from JAMMED_PAWNS, and how
\* many of them are followed
HistoryDepth == 200

HistorySearches == 52

\* the depths of the "go depth" commands tried from a position
SearchDepths(fen) ==
  IF fen = JAMMED_PAWNS THEN {HistoryDepth}
  ELSE 1..MaxDepth \cup (IF fen = QUEEN_POSITION THEN {4} ELSE {})

\* the number of searches followed from the root
search_bound == IF root = JAMMED_PAWNS THEN HistorySearches ELSE MaxSearches

InitSearch ==
  /\ root \in SearchPositions
  /\ InitEngine(root)
  /\ last = [op |-> "init", move_ |-> 0, ok |-> TRUE]
  /\ frames = <<>>
  /\ perft = [done |-> FALSE, nodes |-> 0]
  /\ search = new_search
  /\ out = no_output
  /\ overflow_checks = TRUE

\* search_position up to the loop of the outermost negamax
SearchPosition(depth) ==
  /\ frames = <<>>
  /\ out.calls < search_bound
  /\ ~out.panic
  /\ \E entered \in {enter_negamax(Engine,
                                    [search EXCEPT !.search_ply = 0, !.search_nodes = 0],
                                    depth, -MAX_SCORE, MAX_SCORE, overflow_checks)} :
       /\ frames' = <<entered.frame>>
       /\ search' = entered.search
       /\ out' = [out EXCEPT !.calls = @ + 1,
                              !.ok = ~entered.panic,
                              !.panic = entered.panic]
  /\ last' = [op |-> "search_position", move_ |-> 0, ok |-> TRUE]
  /\ UNCHANGED <<bitboards, side, castling, en_passant, half_moves, full_moves, history,
                 root, perft, overflow_checks>>

\* the recursive call of the activation f, made in the position e;
\* negamax passes depth - 1, u8 arithmetic on a depth that is 0 only when
\* the extension wrapped
recursive_call(f, e, s, overflow_checks_) ==
  IF f.fn = "negamax"
    THEN enter_negamax(e, s, (f.depth - 1) % 256, -f.beta, -f.alpha, overflow_checks_)
    ELSE enter_quiescence(e, s, -f.beta, -f.alpha, overflow_checks_)

\* the next move of the innermost loop: make_move, then the recursive call
\* or, for a rejected move, the next turn of the loop
SearchMake ==
  /\ frames # <<>>
  /\ ~out.panic
  /\ top.fn # "perft_driver"
  /\ ~finished(top)
  /\ \E r \in {make_move(Engine, top.moves[top.i], overflow_checks)} :
       /\ SetEngine(r.e)
       /\ last' = [op |-> "make_move", move_ |-> top.moves[top.i], ok |-> r.ok]
       /\ IF r.ok
            THEN \E entered \in
                     {recursive_call(top, r.e, [search EXCEPT !.search_ply = @ + 1],
                                     overflow_checks)} :
                   /\ frames' = Append([frames EXCEPT ![Len(frames)].legal_moves = @ + 1],
                                       entered.frame)
                   /\ search' = entered.search
                   /\ out' = IF entered.panic
                               THEN [out EXCEPT !.ok = FALSE, !.panic = TRUE]
                               ELSE out
            ELSE /\ frames' = IF r.panic THEN frames
                              ELSE [frames EXCEPT ![Len(frames)].i = @ + 1]
                 /\ search' = search
                 /\ out' = IF r.panic
                             THEN [out EXCEPT !.ok = FALSE, !.panic = TRUE]
                             ELSE out
  /\ UNCHANGED <<root, perft, overflow_checks>>

\* the innermost activation returns: take_back, and the caller's use of the
\* score
SearchReturn ==
  /\ Len(frames) > 1
  /\ ~out.panic
  /\ top.fn # "perft_driver"
  /\ finished(top)
  /\ LET caller == Len(frames) - 1
         score  == -return_value(top, search)
         back   == [search EXCEPT !.search_ply = @ - 1]
         scored == IF frames[caller].fn = "negamax"
                     THEN negamax_scored(frames[caller], back, score)
                     ELSE quiescence_scored(frames[caller], back, score)
         panic  == /\ frames[caller].fn = "negamax"
                   /\ negamax_scored_panics(frames[caller], back, score)
     IN  /\ frames' = IF panic THEN SubSeq(frames, 1, caller)
                      ELSE [SubSeq(frames, 1, caller) EXCEPT ![caller] = scored.frame]
         /\ search' = IF panic THEN back ELSE scored.search
         /\ out' = IF panic THEN [out EXCEPT !.ok = FALSE, !.panic = TRUE] ELSE out
  /\ SetEngine(take_back(Engine))
  /\ last' = [op |-> "take_back", move_ |-> history[Len(history)].move_, ok |-> TRUE]
  /\ UNCHANGED <<root, perft, overflow_checks>>

\* the outermost negamax returns: the info line, whose nps divides by the
\* whole seconds elapsed, and the bestmove line, which indexes the first
\* move of the line
SearchDone(secs) ==
  /\ Len(frames) = 1
  /\ ~out.panic
  /\ top.fn # "perft_driver"
  /\ finished(top)
  /\ LET score   == return_value(top, search)
         pv_line == [n \in 1..at(search.pv_length, 0) |-> at(search.pv_table, <<0, n - 1>>)]
         info    == info_line(score, top.arg, search.search_nodes,
                              search.search_nodes \div secs,
                              [n \in 1..Len(pv_line) |-> moves_format(pv_line[n])])
         panic   == secs = 0 \/ pv_line = <<>>
     IN  /\ out' = [ok    |-> ~panic,
                    panic |-> panic,
                    value |-> score,
                    lines |-> IF secs = 0 THEN out.lines
                              ELSE IF pv_line = <<>> THEN Append(out.lines, info)
                              ELSE out.lines \o <<info, bestmove_line(pv_line[1])>>,
                    calls |-> out.calls]
         /\ last' = [op |-> "bestmove", move_ |-> at(search.pv_table, <<0, 0>>),
                     ok |-> ~panic]
  /\ frames' = <<>>
  /\ UNCHANGED <<bitboards, side, castling, en_passant, half_moves, full_moves, history,
                 root, perft, search, overflow_checks>>

NextSearch ==
  \/ \E depth \in SearchDepths(root) : SearchPosition(depth)
  \/ SearchMake
  \/ SearchReturn
  \/ \E secs \in ElapsedSecs : SearchDone(secs)

SpecSearch == InitSearch /\ [][NextSearch]_vars

\* -- successive searches of one position, history_moves growing

InitHistory ==
  /\ root = JAMMED_PAWNS
  /\ InitEngine(root)
  /\ last = [op |-> "init", move_ |-> 0, ok |-> TRUE]
  /\ frames = <<>>
  /\ perft = [done |-> FALSE, nodes |-> 0]
  /\ search = new_search
  /\ out = no_output
  /\ overflow_checks = TRUE

SpecHistory == InitHistory /\ [][NextSearch]_vars

\* -- the three drivers on one engine: searches, and perft_driver called on
\* the same engine before, between or after them

\* the depths perft_driver is called with
DriverDepths == 0..2

\* perft_driver(depth) called on the engine as it stands; one call is
\* followed in a run
PerftDriver(depth) ==
  /\ frames = <<>>
  /\ ~out.panic
  /\ "depth" \notin DOMAIN perft
  /\ \E called \in {new_frame("perft_driver", Engine, depth, overflow_checks)} :
       /\ frames' = <<called>>
       /\ out' = [out EXCEPT !.panic = called.moves = Panicked]
  /\ perft' = [depth |-> depth, done |-> FALSE, nodes |-> 0]
  /\ last' = [op |-> "perft_driver", move_ |-> 0, ok |-> TRUE]
  /\ UNCHANGED <<bitboards, side, castling, en_passant, half_moves, full_moves, history,
                 root, search, overflow_checks>>

NextDrivers ==
  \/ \E depth \in SearchDepths(root) : SearchPosition(depth)
  \/ SearchMake
  \/ SearchReturn
  \/ \E secs \in ElapsedSecs : SearchDone(secs)
  \/ \E depth \in DriverDepths : PerftDriver(depth)
  \/ PerftMake
  \/ PerftReturn
  \/ PerftDone

SpecDrivers == InitSearch /\ [][NextDrivers]_vars

\* ------------------------------------------------------------ chess rules
\* What "attacked" means on the board, stated by files and ranks, with no
\* use of the attack tables: the properties below compare the engine's
\* answers with it.

file_of(sq) == sq % 8

rank_of(sq) == sq \div 8

Abs(x) == IF x < 0 THEN -x ELSE x

Sign(x) == IF x < 0 THEN -1 ELSE IF x > 0 THEN 1 ELSE 0

Occupied(bbs) == UNION {bbs[p] : p \in 0..11}

\* the squares strictly between two squares of one line
Between(from, to) ==
  LET df   == file_of(to) - file_of(from)
      dr   == rank_of(to) - rank_of(from)
      n    == IF Abs(df) > Abs(dr) THEN Abs(df) ELSE Abs(dr)
      step == Sign(df) + 8 * Sign(dr)
  IN  {from + k * step : k \in 1..(n - 1)}

PieceAttacks(bbs, piece, from, to) ==
  LET df   == file_of(to) - file_of(from)
      dr   == rank_of(to) - rank_of(from)
      type == piece % 6
      open == Between(from, to) \cap Occupied(bbs) = {}
      diag == Abs(df) = Abs(dr) /\ df # 0
      line == (df = 0) # (dr = 0)
  IN  CASE type = PAWN   -> Abs(df) = 1 /\ dr = (IF piece = WHITE_PAWN THEN -1 ELSE 1)
        [] type = KNIGHT -> {Abs(df), Abs(dr)} = {1, 2}
        [] type = BISHOP -> diag /\ open
        [] type = ROOK   -> line /\ open
        [] type = QUEEN  -> (diag \/ line) /\ open
        [] type = KING   -> Abs(df) <= 1 /\ Abs(dr) <= 1 /\ from # to

\* some piece of side `by` attacks the square
RuleAttacked(bbs, sq, by) ==
  \E piece \in side_range(by) : \E from \in bbs[piece] : PieceAttacks(bbs, piece, from, sq)

KingSquare(bbs, s) == CHOOSE sq \in bbs[king_of(s)] : TRUE

Moves == MoveSet(generate_moves(Engine, overflow_checks))

LastMove == decode_move(last.move_)

Made == last.op = "make_move" /\ last.ok

Rejected == last.op = "make_move" /\ ~last.ok

TookBack == last.op = "take_back"

\* ------------------------------------------------------------ properties

\* C1: for every move m of generate_moves that make_move accepts,
\* make_move(m) followed by take_back() gives back the position it started
\* from: the 12 bitboards, side, castling, en_passant, half_moves, full_moves
\* (and the history).
C1_MakeTakeBackRestores ==
  \A m \in Moves :
    LET r == make_move(Engine, m, overflow_checks)
    IN  r.ok => take_back(r.e) = Engine

\* C2: make_move(m) returns true exactly when, in the position after m, no
\* piece of the new side to move attacks the mover's king; and after every
\* accepted make_move the mover's king is not attacked.
C2_AcceptedIffKingSafe ==
  /\ \A m \in Moves :
       LET after == apply_move(Engine, m)
       IN  make_move(Engine, m, overflow_checks).ok
             <=> ~RuleAttacked(after.bitboards, KingSquare(after.bitboards, side), after.side)
  /\ Made => ~RuleAttacked(bitboards, KingSquare(bitboards, 1 - side), side)

\* an accepted move led to a position in which some generated move is rejected
C2_Witness ==
  /\ Made
  /\ \E m \in Moves : ~make_move(Engine, m, overflow_checks).ok

\* C3: when make_move(m) returns false the engine is as it was before the
\* call: bitboards, side, castling, en_passant, half_moves, full_moves and
\* the history stack.
C3_RejectedMoveUndone ==
  \A m \in Moves :
    LET r == make_move(Engine, m, overflow_checks)
    IN  ~r.ok => r.e = Engine

\* C4: no square is occupied by two pieces, after every make_move and every
\* take_back.
C4_BitboardsDisjoint ==
  \A p, q \in 0..11 : p < q => bitboards[p] \cap bitboards[q] = {}

\* a promotion with capture was made and taken back
C4_Witness ==
  /\ TookBack
  /\ LastMove.promotion # 0
  /\ LastMove.capture

\* C5: there is exactly one white king and one black king.
C5_OneKingEach ==
  /\ Cardinality(bitboards[WHITE_KING]) = 1
  /\ Cardinality(bitboards[BLACK_KING]) = 1

\* a move that left the mover's king attacked was rejected, two plies deep
C5_Witness ==
  /\ Rejected
  /\ Len(history) > 0

\* C6: no pawn stands on rank 1 or rank 8; every generated pawn move onto the
\* last rank carries a promotion piece, make_move puts that piece (and no
\* pawn) on the target, and take_back puts the pawn back on the source and
\* leaves no promoted piece on the target.
C6_NoPawnOnLastRank ==
  /\ (bitboards[WHITE_PAWN] \cup bitboards[BLACK_PAWN]) \cap (RANK_1 \cup RANK_8) = {}
  /\ \A m \in Moves :
       LET d == decode_move(m)
       IN  d.piece % 6 = PAWN /\ d.target \in RANK_1 \cup RANK_8 => d.promotion # 0
  /\ Made /\ LastMove.promotion # 0 =>
       /\ LastMove.target \in bitboards[LastMove.promotion]
       /\ LastMove.target \notin bitboards[LastMove.piece]
  /\ TookBack /\ LastMove.promotion # 0 =>
       /\ LastMove.source \in bitboards[LastMove.piece]
       /\ LastMove.target \notin bitboards[LastMove.promotion]

\* from 4k3/Pp6/8/8/8/8/8/4K3 w - b8 0 1 the generated en-passant move
\* a7b8, which carries no promotion piece, was made and accepted: a white
\* pawn stands on b8
C6_Witness ==
  /\ root = EN_PASSANT_RANK_8
  /\ Made
  /\ LastMove.en_passant
  /\ LastMove.promotion = 0
  /\ LastMove.target \in RANK_8 \cap bitboards[WHITE_PAWN]

\* from the other roots, whose en-passant square is none or one make_move
\* sets behind a double push, the statement of C6 holds
PromotionFromPlayableRoots == root # EN_PASSANT_RANK_8 => C6_NoPawnOnLastRank

\* a promotion was made (one ply) and taken back
PromotionTakenBack ==
  /\ TookBack
  /\ LastMove.promotion # 0
  /\ LastMove.piece % 6 = PAWN

\* C7: each castling right still set has its king and its rook at home.
C7_CastlingRightsAtHome ==
  /\ BitAnd4(castling, WK) # 0 => E1 \in bitboards[WHITE_KING] /\ H1 \in bitboards[WHITE_ROOK]
  /\ BitAnd4(castling, WQ) # 0 => E1 \in bitboards[WHITE_KING] /\ A1 \in bitboards[WHITE_ROOK]
  /\ BitAnd4(castling, BK) # 0 => E8 \in bitboards[BLACK_KING] /\ H8 \in bitboards[BLACK_ROOK]
  /\ BitAnd4(castling, BQ) # 0 => E8 \in bitboards[BLACK_KING] /\ A8 \in bitboards[BLACK_ROOK]

\* a rook was captured on its home square and the right it carried is gone
C7_Witness ==
  /\ Made
  /\ LastMove.capture
  /\ LastMove.target = A8
  /\ BitAnd4(history[Len(history)].castling, BQ) # 0
  /\ BitAnd4(castling, BQ) = 0

\* C8: if en_passant is a square, the enemy of the side to move has a pawn
\* just behind it (ep - 8 with Black to move, ep + 8 with White to move) and
\* the square itself is empty; after an accepted make_move en_passant is a
\* square exactly when the move was a pawn's double step.
C8_EnPassantBehindPawn ==
  /\ en_passant # None =>
       /\ en_passant \notin Occupied(bitboards)
       /\ IF side = BLACK
            THEN en_passant - 8 \in bitboards[WHITE_PAWN]
            ELSE en_passant + 8 \in bitboards[BLACK_PAWN]
  /\ Made =>
       (en_passant # None
          <=> LastMove.piece % 6 = PAWN /\ Abs(LastMove.target - LastMove.source) = 16)

\* a pawn made its double step
C8_Witness ==
  /\ Made
  /\ en_passant # None

\* C9: perft_driver(depth) returns the published node count.
C9_PerftMatches == perft.done => perft.nodes = perft.expected

\* the depth-3 count of Kiwipete was returned
C9_Witness ==
  /\ perft.done
  /\ root = KIWIPETE_POSITION
  /\ perft.depth = 3
  /\ perft.nodes = 97862

\* C10: for the side to move and each wing, the castle move is generated
\* exactly when the right is set, the squares between king and rook are
\* empty, and neither the king's home square nor the square it passes over
\* is attacked; a generated castle whose landing square is attacked is
\* rejected by make_move; in Kiwipete both castles are generated and accepted.
CastleMove(s, target) == encode_move(IF s = WHITE THEN E1 ELSE E8, target, KING + s * 6, 0, CASTLE)

CastleAllowed(s, right, home, pass, between) ==
  /\ BitAnd4(castling, right) # 0
  /\ between \cap Occupied(bitboards) = {}
  /\ ~RuleAttacked(bitboards, home, 1 - s)
  /\ ~RuleAttacked(bitboards, pass, 1 - s)

CastleRule(s, right, home, pass, landing, between) ==
  /\ CastleMove(s, landing) \in Moves <=> CastleAllowed(s, right, home, pass, between)
  /\ CastleMove(s, landing) \in Moves /\ RuleAttacked(bitboards, landing, 1 - s)
       => ~make_move(Engine, CastleMove(s, landing), overflow_checks).ok

C10_CastleGeneration ==
  /\ side = WHITE => /\ CastleRule(WHITE, WK, E1, F1, G1, {F1, G1})
                     /\ CastleRule(WHITE, WQ, E1, D1, C1, {B1, C1, D1})
  /\ side = BLACK => /\ CastleRule(BLACK, BK, E8, F8, G8, {F8, G8})
                     /\ CastleRule(BLACK, BQ, E8, D8, C8, {B8, C8, D8})
  /\ root = KIWIPETE_POSITION /\ history = <<>> =>
       /\ CastleMove(WHITE, G1) \in Moves /\ make_move(Engine, CastleMove(WHITE, G1), overflow_checks).ok
       /\ CastleMove(WHITE, C1) \in Moves /\ make_move(Engine, CastleMove(WHITE, C1), overflow_checks).ok

\* a castle is generated although its landing square is attacked
C10_Witness ==
  /\ side = WHITE
  /\ CastleMove(WHITE, G1) \in Moves
  /\ RuleAttacked(bitboards, G1, BLACK)

\* ------------------------------------------------------------ generation order

MoveList == generate_moves(Engine, overflow_checks)

\* where a pawn move stands among the moves of its pawn: single push (or
\* its promotions), double push, attacks
pawn_move_class(d) == IF d.capture THEN 2 ELSE IF d.double THEN 1 ELSE 0

\* b may directly follow a in the list, both being moves of one piece from
\* one source square
same_source_order(a, b) ==
  CASE a.piece % 6 = PAWN ->
         \/ pawn_move_class(a) < pawn_move_class(b)
         \/ /\ pawn_move_class(a) = pawn_move_class(b)
            /\ \/ a.target < b.target
               \/ a.target = b.target /\ a.promotion > b.promotion
    [] a.piece % 6 = KING ->
         \/ a.castle /\ ~b.castle
         \/ a.castle /\ b.castle /\ a.target > b.target
         \/ ~a.castle /\ ~b.castle /\ a.target < b.target
    [] OTHER -> a.target < b.target

\* C11 (as stated): the list of generate_moves is ordered by piece type, then
\* by ascending source square, then by ascending target square, pawn and
\* king moves included.
C11_OrderedBySourceAndTarget ==
  LET ms == MoveList
  IN  \A i \in 1..(Len(ms) - 1) :
        LET a == decode_move(ms[i])
            b == decode_move(ms[i + 1])
        IN  \/ a.piece < b.piece
            \/ a.piece = b.piece /\ a.source < b.source
            \/ a.piece = b.piece /\ a.source = b.source /\ a.target <= b.target

\* C11 (amended): the list is ordered by piece type, then by ascending
\* source square; within one source the targets ascend for knights, bishops,
\* rooks, queens and the king's ordinary moves, a pawn's moves come as single
\* push (its promotions as Q, R, B, N), double push, then attacks by
\* ascending target, and the castles (king side, then queen side) come before
\* the king's ordinary moves.
C11_GenerationOrder ==
  LET ms == MoveList
  IN  \A i \in 1..(Len(ms) - 1) :
        LET a == decode_move(ms[i])
            b == decode_move(ms[i + 1])
        IN  \/ a.piece < b.piece
            \/ a.piece = b.piece /\ a.source < b.source
            \/ a.piece = b.piece /\ a.source = b.source /\ same_source_order(a, b)

\* Kiwipete: a pawn's single push is listed before its double push to a
\* lower square, and both castles are listed before the king's ordinary moves
C11_Witness ==
  /\ root = KIWIPETE_POSITION
  /\ history = <<>>
  /\ \E i \in 1..(Len(MoveList) - 1) :
       LET a == decode_move(MoveList[i])
           b == decode_move(MoveList[i + 1])
       IN  a.piece = WHITE_PAWN /\ b.piece = WHITE_PAWN /\ a.source = b.source
             /\ a.target > b.target
  /\ \E i \in 1..(Len(MoveList) - 2) :
       /\ decode_move(MoveList[i]).castle
       /\ decode_move(MoveList[i + 1]).castle
       /\ ~decode_move(MoveList[i + 2]).castle

\* ------------------------------------------------------------ Bxh7+

D3 == 43

H7 == 15

BxH7 == encode_move(D3, H7, WHITE_BISHOP, 0, CAPTURE)

\* C12: from the Greek-gift position generate_moves contains d3h7 as a
\* capture by the bishop, make_move accepts it, and afterwards Black is to
\* move, no black pawn stands on h7 and White's king is not attacked.
C12_GreekGiftCapture ==
  /\ root = GREEK_GIFT /\ history = <<>> =>
       /\ H7 \in bitboards[BLACK_PAWN]
       /\ BxH7 \in Moves
       /\ \A m \in Moves :
            decode_move(m).source = D3 /\ decode_move(m).target = H7 => m = BxH7
       /\ make_move(Engine, BxH7, overflow_checks).ok
  /\ root = GREEK_GIFT /\ Len(history) = 1 /\ Made /\ last.move_ = BxH7 =>
       /\ side = BLACK
       /\ H7 \notin bitboards[BLACK_PAWN]
       /\ H7 \in bitboards[WHITE_BISHOP]
       /\ ~RuleAttacked(bitboards, KingSquare(bitboards, WHITE), BLACK)

\* the bishop has taken on h7
C12_Witness ==
  /\ root = GREEK_GIFT
  /\ Len(history) = 1
  /\ Made
  /\ last.move_ = BxH7

\* ------------------------------------------------------------ text interface: properties

\* the letter q, r, b or n of a promotion piece of either side
promotion_letter(promotion) == ASCII_PIECES[(promotion % 6) + 6]

\* <from><to>[promo] of a move
coordinate_notation(m) ==
  LET d == decode_move(m)
  IN  index_to_algebraic(d.source) \o index_to_algebraic(d.target)
        \o (IF d.promotion # 0 THEN <<promotion_letter(d.promotion)>> ELSE <<>>)

\* the en-passant square is a square of the board
OnBoard == en_passant = None \/ en_passant \in Squares

\* the generated moves that make_move accepts
LegalMoves(e) ==
  {m \in MoveSet(generate_moves(e, overflow_checks)) : make_move(e, m, overflow_checks).ok}

\* the tokens applied in order up to the first one that names no legal move
RECURSIVE AppliedUntilIllegal(_, _)
AppliedUntilIllegal(e, moves) ==
  IF moves = <<>> THEN [e |-> e, lines |-> <<>>]
  ELSE LET named == {m \in LegalMoves(e) : coordinate_notation(m) = Head(moves)}
       IN  IF named = {} THEN [e |-> e, lines |-> <<invalid_move_line(Head(moves))>>]
           ELSE AppliedUntilIllegal(make_move(e, CHOOSE m \in named : TRUE, overflow_checks).e, Tail(moves))

\* C13: load_moves applies the tokens in order; at the first token that is
\* no legal move of the current position (not generated, or generated but
\* leaving the mover's king in check) it prints 'Invalid move: <tok>' and
\* applies no later token, so the position is the one after the last legal
\* move.
C13_LoadMovesStopsAtFirstIllegal ==
  OnBoard =>
    \A moves \in LoadInputs :
      LET r    == load_moves(Engine, moves, overflow_checks)
          want == AppliedUntilIllegal(Engine, moves)
      IN  /\ ~r.panic
          /\ r.lines = want.lines
          /\ position_of(r.e) = position_of(want.e)

\* C14: for every generated promotion, the token <from><to><letter> with the
\* letter q, r, b or n of its promotion piece is resolved by parse_move to
\* that move, for either side.
C14_PromotionTokenResolves ==
  OnBoard =>
    \A m \in Moves :
      decode_move(m).promotion # 0 =>
        LET r == parse_move(Engine, coordinate_notation(m), overflow_checks)
        IN  ~r.panic /\ r.value = m

\* C15: moves::format(m) is <from><to> followed by the lower-case letter q,
\* r, b or n of the promotion piece, or by nothing when there is no
\* promotion; parse_move resolves the string to m in the same position.
C15_FormatRoundTrips ==
  OnBoard =>
    \A m \in Moves :
      /\ moves_format(m) = coordinate_notation(m)
      /\ parse_move(Engine, moves_format(m), overflow_checks).value = m

\* C16: set_position with a FEN that has the wrong number of sections, a bad
\* piece character, a bad side, a bad castling character or bad clocks
\* returns an error with a reason, and bitboards, side, castling, en_passant,
\* half_moves and full_moves stay as they were.
C16_BadFenLeavesPosition ==
  \A fen \in MalformedFens :
    LET r == set_position(Engine, fen, overflow_checks)
    IN  /\ ~r.ok
        /\ ~r.panic
        /\ r.err # ""
        /\ position_of(r.e) = position_of(Engine)

\* set_position has refused a FEN for its halfmove clock while the engine
\* held the Greek-gift position, and still holds it
C16_Witness ==
  /\ last.op = "set_position"
  /\ ~out.ok
  /\ ~out.panic
  /\ out.value = "Invalid halfmove clock"
  /\ root = GREEK_GIFT
  /\ position_of(Engine) = position_of(Engine_new(GREEK_GIFT))

\* an en-passant field that is a square: a file a-h and a rank 1-8
WellFormedSquare(field) ==
  /\ Len(field) = 2
  /\ \E f \in 0..7 : Lowers[f] = field[1]
  /\ \E r \in 1..8 : Digits[r] = field[2]

\* C17: fen::parse returns an error, and does not abort, for every
\* en-passant field that is neither '-' nor a square a1..h8; when it returns
\* Ok with an en-passant square, the square is in 0..63.
C17_MalformedEnPassantRejected ==
  /\ \A field \in EnPassantFields :
       LET r == fen_parse([WHITE_PAWNS EXCEPT ![4] = field], overflow_checks)
       IN  /\ ~r.panic
           /\ r.ok => field = <<"-">> \/ WellFormedSquare(field)
           /\ r.ok /\ r.state.en_passant # None => r.state.en_passant \in Squares
  /\ last.op = "set_position" /\ out.ok => OnBoard

\* ------------------------------------------------------------ search: properties

\* the info lines printed so far
InfoLines == SelectSeq(out.lines, LAMBDA line : line.kind = "info")

\* C18: when search_position has entered its negamax, search_ply is 0, the
\* root alone has been counted, and the PV table, pv_length, killer_moves
\* and history_moves hold nothing of an earlier search; any two searches of
\* the position to the same depth report the same score, node count and PV.
C18_SearchStartsFromCleanScratch ==
  /\ last.op = "search_position" =>
       /\ search.search_ply = 0
       /\ search.search_nodes = 1
       /\ search.pv_table = new_search.pv_table
       /\ search.pv_length = new_search.pv_length
       /\ search.killer_moves = new_search.killer_moves
       /\ search.history_moves = new_search.history_moves
  /\ \A a, b \in 1..Len(InfoLines) :
       InfoLines[a].depth = InfoLines[b].depth =>
         /\ InfoLines[a].score = InfoLines[b].score
         /\ InfoLines[a].nodes = InfoLines[b].nodes
         /\ InfoLines[a].pv = InfoLines[b].pv

\* the position search_position was called on has a move that make_move
\* accepts
RootHasLegalMove == LegalMoves(Engine_new(root)) # {}

\* C19: search_position on a position with a legal move, for every depth
\* from 1 and every elapsed time, returns without panic having printed one
\* info line and then one bestmove line with the move pv_table[0][0].
C19_SearchAlwaysReports ==
  last.op = "bestmove" /\ RootHasLegalMove =>
    /\ ~out.panic
    /\ Len(out.lines) = 2 * out.calls
    /\ out.lines[Len(out.lines) - 1].kind = "info"
    /\ out.lines[Len(out.lines)].kind = "bestmove"
    /\ out.lines[Len(out.lines)].pv = <<moves_format(at(search.pv_table, <<0, 0>>))>>

\* the side to move is in check, by the rules
InCheckByRule == RuleAttacked(bitboards, KingSquare(bitboards, side), 1 - side)

\* C20: a negamax called with depth >= 1 whose loop is over with no move
\* accepted returns -MATE_SCORE + search_ply if the side to move is in check
\* and 0 otherwise; the search of the stalemate position returns 0 at the
\* root. (A call that panics on entry, C21, has no loop.)
C20_NoLegalMoveValue ==
  /\ frames # <<>> /\ ~out.panic /\ top.fn = "negamax" /\ top.arg >= 1 /\ finished(top)
       /\ LegalMoves(Engine) = {} =>
         return_value(top, search) =
           IF InCheckByRule THEN -MATE_SCORE + search.search_ply ELSE 0
  /\ root = STALEMATE_POSITION /\ last.op = "bestmove" => out.value = 0

\* a negamax one ply below the root has found its side mated
C20_Witness ==
  /\ Len(frames) = 2
  /\ top.fn = "negamax"
  /\ finished(top)
  /\ top.legal_moves = 0
  /\ top.in_check
  /\ search.search_ply = 1
  /\ return_value(top, search) = 1 - MATE_SCORE


\* C21: from the position of king and queen against king, a search_position
\* of depth 4 runs to completion: no call of negamax made during it panics
C21_QueenSearchCompletes ==
  (root = QUEEN_POSITION /\ frames # <<>> /\ frames[1].arg = 4) => ~out.panic

\* ------------------------------------------------- position, moves, search
\* The order of the UCI loop: a position, its move list, then the search.

\* move lists played from MATE_IN_ONE before the search, as parse_move
\* finds them: g6g5 (22 to 30), then h8h7 (7 to 15)
GoInputs ==
  { << encode_move(22, 30, WHITE_QUEEN, 0, 0) >>,
    << encode_move(22, 30, WHITE_QUEEN, 0, 0), encode_move(7, 15, BLACK_KING, 0, 0) >> }

\* load_moves of moves that parse_move has found: the history is emptied and
\* each move is made and the board printed, whatever make_move returns,
\* until one of the two panics
load_parsed(e, moves, overflow_checks_) ==
  LET after[n \in 0..Len(moves)] ==
        IF n = 0
          THEN [e |-> [e EXCEPT !.history = <<>>], lines |-> <<>>, panic |-> FALSE,
                returned |-> FALSE]
        ELSE IF after[n - 1].returned THEN after[n - 1]
        ELSE load_moves_made(after[n - 1],
                             make_move(after[n - 1].e, moves[n], overflow_checks_),
                             overflow_checks_)
  IN  after[Len(moves)]

\* the engine when "go" arrives: "position fen ... moves ..." has built it
\* and load_moves has played the moves
InitGo ==
  /\ root = MATE_IN_ONE
  /\ \E moves \in GoInputs :
       \E loaded \in {load_parsed(Engine_new(root), moves, TRUE)} :
         /\ bitboards  = loaded.e.bitboards
         /\ side       = loaded.e.side
         /\ castling   = loaded.e.castling
         /\ en_passant = loaded.e.en_passant
         /\ half_moves = loaded.e.half_moves
         /\ full_moves = loaded.e.full_moves
         /\ history    = loaded.e.history
         /\ out = [no_output EXCEPT !.panic = loaded.panic]
  /\ last = [op |-> "load_moves", move_ |-> 0, ok |-> TRUE]
  /\ frames = <<>>
  /\ perft = [done |-> FALSE, nodes |-> 0]
  /\ search = new_search
  /\ overflow_checks = TRUE

NextGo ==
  \/ \E depth \in 1..MaxDepth : SearchPosition(depth)
  \/ SearchMake
  \/ SearchReturn
  \/ \E secs \in ElapsedSecs : SearchDone(secs)

SpecGo == InitGo /\ [][NextGo]_vars

\* the pieces on the board
piece_count(bbs) == Cardinality(UNION {bbs[p] : p \in DOMAIN bbs})

\* C22: at every point of a search_position(depth), whatever load_moves came
\* before it, the history stack is as long as the search ply, and never
\* longer than depth plus the deepest quiescence (the captures that the
\* pieces on the board allow, two kings remaining)
C22_HistoryLengthIsSearchPly ==
  frames # <<>> =>
    /\ Len(history) = search.search_ply
    /\ Len(history) <= frames[1].arg + piece_count(Engine_new(root).bitboards) - 2

\* ------------------------------------------------- encode_move, decode_move
\* The two macros of moves.rs on their own: fields are drawn, encoded and
\* decoded.

MoveSources == {0, 52, 63}

MoveTargets == {0, 36, 63}

MovePieces == 0..11

MoveFlags == 0..15

InitMoves ==
  /\ root = START_POSITION
  /\ InitEngine(root)
  /\ \E source \in MoveSources, target \in MoveTargets, piece \in MovePieces,
        promotion \in MovePieces, flags \in MoveFlags :
       last = [op |-> "fields", move_ |-> <<source, target, piece, promotion, flags>>,
               ok |-> TRUE]
  /\ frames = <<>>
  /\ perft = [done |-> FALSE, nodes |-> 0]
  /\ search = new_search
  /\ out = no_output
  /\ overflow_checks = TRUE

\* encode_move!(source, target, piece, promotion, flags)
EncodeMove ==
  /\ last.op = "fields"
  /\ last' = [op |-> "encode_move",
              move_ |-> encode_move(last.move_[1], last.move_[2], last.move_[3],
                                    last.move_[4], last.move_[5]),
              ok |-> TRUE]
  /\ out' = [out EXCEPT !.lines = last.move_]
  /\ UNCHANGED <<bitboards, side, castling, en_passant, half_moves, full_moves, history,
                 root, frames, perft, search, overflow_checks>>

\* decode_move!(move_)
DecodeMove ==
  /\ last.op = "encode_move"
  /\ last' = [last EXCEPT !.op = "decode_move"]
  /\ out' = [out EXCEPT !.value = decode_move(last.move_)]
  /\ UNCHANGED <<bitboards, side, castling, en_passant, half_moves, full_moves, history,
                 root, frames, perft, search, overflow_checks>>

NextMoves == EncodeMove \/ DecodeMove

SpecMoves == InitMoves /\ [][NextMoves]_vars

\* the fields of bits 0-5, 6-11, 12-15, 16-19 and the flags of bits 20-23
fields_of(source, target, piece, promotion, flags) ==
  [source     |-> source,
   target     |-> target,
   piece      |-> piece,
   promotion  |-> promotion,
   capture    |-> flags % 2 = 1,
   double     |-> (flags \div 2) % 2 = 1,
   en_passant |-> (flags \div 4) % 2 = 1,
   castle     |-> (flags \div 8) % 2 = 1]

\* C23: decode_move of encode_move(s, t, p, pr, f) gives back s, t, p, pr and
\* the four flags of f, and the encoded word is the fields laid out at bits
\* 0, 6, 12, 16 and 20, below 2^24
C23_DecodeOfEncode ==
  last.op = "decode_move" =>
    /\ out.value = fields_of(out.lines[1], out.lines[2], out.lines[3], out.lines[4],
                             out.lines[5])
    /\ last.move_ \in 0..(2^24 - 1)
    /\ last.move_ % 64 = out.lines[1]
    /\ (last.move_ \div 2^6) % 2^6 = out.lines[2]
    /\ (last.move_ \div 2^12) % 2^4 = out.lines[3]
    /\ (last.move_ \div 2^16) % 2^4 = out.lines[4]
    /\ last.move_ \div 2^20 = out.lines[5]

\* e2e4 of the white pawn as a double push has been encoded and decoded
C23_Witness ==
  /\ last.op = "decode_move"
  /\ out.lines = <<52, 36, WHITE_PAWN, 0, DOUBLE>>
  /\ out.value = [source |-> 52, target |-> 36, piece |-> WHITE_PAWN, promotion |-> 0,
                  capture |-> FALSE, double |-> TRUE, en_passant |-> FALSE,
                  castle |-> FALSE]

\* ------------------------------------------------- the attack tables
\* The entries of one square are computed as AttackTable::init computes them:
\* the leaper masks, and the row of the bishop or rook table, which is then
\* read with the occupancies of whole boards.

\* occupancies of whole boards
MagicOccupancies ==
  { {}, Squares,
    get_occupancy(Engine_new(START_POSITION).bitboards, range_ALL),
    get_occupancy(Engine_new(KIWIPETE_POSITION).bitboards, range_ALL) }

InitMagic ==
  /\ root = START_POSITION
  /\ InitEngine(root)
  /\ \E square \in Squares, is_bishop \in BOOLEAN :
       last = [op |-> "square", move_ |-> <<square, is_bishop>>, ok |-> TRUE]
  /\ frames = <<>>
  /\ perft = [done |-> FALSE, nodes |-> 0]
  /\ search = new_search
  /\ out = no_output
  /\ overflow_checks = TRUE

\* init_slider_attacks, for one square
InitSliderAttacks ==
  /\ last.op = "square"
  /\ last' = [last EXCEPT !.op = "init_slider_attacks"]
  /\ out' = [out EXCEPT !.value = init_slider_attacks(last.move_[1], last.move_[2])]
  /\ UNCHANGED <<bitboards, side, castling, en_passant, half_moves, full_moves, history,
                 root, frames, perft, search, overflow_checks>>

\* get_bishop_attacks or get_rook_attacks on the row
GetSliderAttacks(occupancy) ==
  /\ last.op = "init_slider_attacks"
  /\ last' = [last EXCEPT !.op = "get_slider_attacks"]
  /\ out' = [out EXCEPT !.lines =
               <<occupancy,
                 read_slider_attacks(out.value, last.move_[1], occupancy, last.move_[2])>>]
  /\ UNCHANGED <<bitboards, side, castling, en_passant, half_moves, full_moves, history,
                 root, frames, perft, search, overflow_checks>>

\* the entries of one square in the pawn, knight and king tables
MaskLeaperAttacks ==
  /\ last.op = "square"
  /\ last' = [last EXCEPT !.op = "mask_leaper_attacks"]
  /\ out' = [out EXCEPT !.value =
               [pawns   |-> [s \in {WHITE, BLACK} |-> mask_pawn_attacks(last.move_[1], s)],
                knights |-> mask_knight_attacks(last.move_[1]),
                kings   |-> mask_king_attacks(last.move_[1])]]
  /\ UNCHANGED <<bitboards, side, castling, en_passant, half_moves, full_moves, history,
                 root, frames, perft, search, overflow_checks>>

NextMagic ==
  \/ MaskLeaperAttacks
  \/ InitSliderAttacks
  \/ \E occupancy \in MagicOccupancies : GetSliderAttacks(occupancy)

SpecMagic == InitMagic /\ [][NextMagic]_vars

\* C24: for every square, the row read at the magic index of any subset of
\* the relevant mask holds the attacks that generate_bishop_attacks or
\* generate_rook_attacks gives for that subset, the index being below
\* 1 << bits; and the read of a whole board's occupancy is what the
\* generator gives for the whole board
C24_MagicLookupIsReference ==
  /\ last.op = "init_slider_attacks" =>
       \A occupancy \in SUBSET slider(last.move_[1], last.move_[2]).mask :
         /\ magic_index(occupancy, slider(last.move_[1], last.move_[2]).magic,
                        slider(last.move_[1], last.move_[2]).bits)
              \in 0..(2^slider(last.move_[1], last.move_[2]).bits - 1)
         /\ read_slider_attacks(out.value, last.move_[1], occupancy, last.move_[2])
              = generate_attacks(last.move_[1], occupancy, last.move_[2])
  /\ last.op = "get_slider_attacks" =>
       out.lines[2] = generate_attacks(last.move_[1], out.lines[1], last.move_[2])

\* the rook's row of a1 has been read with the occupancy of the start
\* position: the rook sees a2 and b1
C24_Witness ==
  /\ last.op = "get_slider_attacks"
  /\ last.move_ = <<56, FALSE>>
  /\ out.lines = <<(0..15) \cup (48..63), {48, 57}>>

\* the squares that the rules give a piece standing on `from` to attack
RuleTargets(piece, from) ==
  {to \in Squares : PieceAttacks([p \in 0..11 |-> {}], piece, from, to)}

\* C25: for every square the pawn, knight and king masks are exactly the
\* squares of the board that the piece attacks by the rules: a knight's
\* target is (1, 2) or (2, 1) away in (file, rank), a king's at most 1 away in
\* both, a pawn's one rank forward for its side and one file to the side; no
\* target comes from walking off an edge of the board
C25_LeaperMasksFollowTheRules ==
  last.op = "mask_leaper_attacks" =>
    /\ out.value.pawns[WHITE] = RuleTargets(WHITE_PAWN, last.move_[1])
    /\ out.value.pawns[BLACK] = RuleTargets(BLACK_PAWN, last.move_[1])
    /\ out.value.knights = RuleTargets(WHITE_KNIGHT, last.move_[1])
    /\ out.value.kings = RuleTargets(WHITE_KING, last.move_[1])
    /\ out.value.pawns[WHITE] = pawns[WHITE][last.move_[1]]
    /\ out.value.pawns[BLACK] = pawns[BLACK][last.move_[1]]
    /\ out.value.knights = knights[last.move_[1]]
    /\ out.value.kings = kings[last.move_[1]]

\* the masks of e5 have been computed: the white pawn attacks d6 and f6; and
\* the knight's entry of b8 is d7, a6, c6
C25_Witness ==
  /\ last.op = "mask_leaper_attacks"
  /\ last.move_[1] = 28
  /\ out.value.pawns[WHITE] = {19, 21}
  /\ knights[1] = {11, 16, 18}

\* the innermost activation has finished and its caller, a negamax, receives
\* a score that is at least its beta
BetaCutoff ==
  /\ Len(frames) > 1
  /\ ~out.panic
  /\ finished(top)
  /\ frames[Len(frames) - 1].fn = "negamax"
  /\ -return_value(top, search) >= frames[Len(frames) - 1].beta

\* the move that the caller of the innermost activation is searching
SearchedMove == frames[Len(frames) - 1].moves[frames[Len(frames) - 1].i]

\* C26: when the score of a move is at least beta in negamax and the move is
\* not a capture, killer_moves[1][ply] takes the former killer_moves[0][ply]
\* and killer_moves[0][ply] takes the move, ply being the ply of the node that
\* searched the move, and no other killer entry changes; a capture changes no
\* killer entry, so that no killer is ever a capture; and when negamax returns
\* beta the move has been taken back
C26_KillerUpdate ==
  /\ [](\A key \in DOMAIN search.killer_moves.cells :
          ~decode_move(search.killer_moves.cells[key]).capture)
  /\ [](\A k \in 1..Len(frames) :
          frames[k].done => k = Len(frames) /\ search.search_ply = k - 1)
  /\ [][ /\ BetaCutoff /\ ~decode_move(SearchedMove).capture =>
              /\ search'.killer_moves =
                   put(put(search.killer_moves, <<1, Len(frames) - 2>>,
                           at(search.killer_moves, <<0, Len(frames) - 2>>)),
                       <<0, Len(frames) - 2>>, SearchedMove)
              /\ frames'[Len(frames) - 1].done
              /\ frames'[Len(frames) - 1].value = frames[Len(frames) - 1].beta
              /\ history' = SubSeq(history, 1, Len(history) - 1)
              /\ search'.search_ply = Len(frames) - 2
         /\ ~(BetaCutoff /\ ~decode_move(SearchedMove).capture) =>
              search'.killer_moves = search.killer_moves ]_vars

\* a quiet move has just cut off at a ply that had a killer already: the move
\* is the first killer of the ply and the former first killer is the second
C26_Witness ==
  /\ last.op = "take_back"
  /\ frames # <<>>
  /\ top.fn = "negamax"
  /\ top.done
  /\ ~decode_move(last.move_).capture
  /\ at(search.killer_moves, <<0, top.ply_index>>) = last.move_
  /\ at(search.killer_moves, <<1, top.ply_index>>) # 0
  /\ at(search.killer_moves, <<1, top.ply_index>>) # last.move_

\* pv_table[0][0 .. pv_length[0]]
PvLine == [n \in 1..at(search.pv_length, 0) |-> at(search.pv_table, <<0, n - 1>>)]

\* the moves can be played in order from e: each is generated in the position
\* reached by the ones before it, and make_move returns true on it
RECURSIVE Playable(_, _)
Playable(e, line) ==
  \/ line = <<>>
  \/ /\ Head(line) \in MoveSet(generate_moves(e, overflow_checks))
     /\ make_move(e, Head(line), overflow_checks).ok
     /\ Playable(make_move(e, Head(line), overflow_checks).e, Tail(line))

\* a move of the root has come back with a score between alpha and beta
RootRaisesAlpha ==
  /\ Len(frames) = 2
  /\ ~out.panic
  /\ finished(top)
  /\ frames[1].fn = "negamax"
  /\ -return_value(top, search) < frames[1].beta
  /\ -return_value(top, search) > frames[1].alpha

\* C27: when the outermost negamax has returned, pv_table[0][0 .. pv_length[0]]
\* can be played in order from the root position, every make_move returning
\* true; and pv_table[0][0] is the move of the root that last raised alpha: it
\* is written when a root move raises alpha, with that move, and at no other
\* moment
C27_PvIsPlayable ==
  /\ [](last.op = "bestmove" => Playable(Engine, PvLine))
  /\ [][ IF RootRaisesAlpha
           THEN /\ at(search'.pv_table, <<0, 0>>) = SearchedMove
                /\ at(search'.pv_length, 0) >= 1
           ELSE at(search'.pv_table, <<0, 0>>) = at(search.pv_table, <<0, 0>>) ]_vars

\* a search has returned a line of two moves or more, the first of them the
\* move that the bestmove line names
C27_Witness ==
  /\ last.op = "bestmove"
  /\ Len(PvLine) >= 2
  /\ last.move_ = PvLine[1]
  /\ Playable(Engine, PvLine)

\* ------------------------------------------------- the three drivers
\* perft_driver, and negamax with quiescence, each run from its root.

\* perft_driver is running, not a search
PerftRun == frames # <<>> /\ frames[1].fn = "perft_driver"

\* the position reached from e by making the moves in order
RECURSIVE Replay(_, _)
Replay(e, moves) ==
  IF moves = <<>> THEN e ELSE Replay(make_move(e, Head(moves), overflow_checks).e, Tail(moves))

\* the moves on the history stack, oldest first
HistoryMoves == [n \in 1..Len(history) |-> history[n].move_]

\* C28: negamax, quiescence and perft_driver undo what they do, on every
\* path: while the drivers run, the history holds one item for each
\* activation below the outermost, search_ply is that number, and the
\* bitboards, side, castling, en_passant and half_moves are those reached
\* from the root by the moves on the history alone; the history changes only
\* by a push or a pop at its end.  So when an activation returns, these are
\* what they were when it was entered, and after the outermost return they
\* are the root's
C28_DriversAreBalanced ==
  /\ [](frames # <<>> /\ ~out.panic =>
          /\ Len(history) = Len(frames) - 1
          /\ search.search_ply = IF PerftRun THEN 0 ELSE Len(frames) - 1
          /\ \E replayed \in {Replay(Engine_new(root), HistoryMoves)} :
               /\ bitboards = replayed.bitboards
               /\ side = replayed.side
               /\ castling = replayed.castling
               /\ en_passant = replayed.en_passant
               /\ half_moves = replayed.half_moves
               /\ history = replayed.history)
  /\ [](frames = <<>> =>
          /\ history = <<>>
          /\ search.search_ply = 0
          /\ \E e \in {Engine_new(root)} :
               /\ bitboards = e.bitboards
               /\ side = e.side
               /\ castling = e.castling
               /\ en_passant = e.en_passant
               /\ half_moves = e.half_moves)
  /\ [][ \/ history' = history
         \/ Len(history') = Len(history) + 1
              /\ SubSeq(history', 1, Len(history)) = history
         \/ Len(history') = Len(history) - 1
              /\ SubSeq(history, 1, Len(history')) = history' ]_vars

\* a search that quiescence ended has returned, and on the same engine a
\* perft_driver two calls deep has returned from a capture it made into
\* the perft_driver that called it
C28_Witness ==
  /\ out.calls > 0
  /\ search.search_nodes > 0
  /\ PerftRun
  /\ top.fn = "perft_driver"
  /\ last.op = "take_back"
  /\ decode_move(last.move_).capture
  /\ Len(frames) >= 2
  /\ Len(history) = Len(frames) - 1

\* a capture searched by quiescence has been taken back
QuiescenceTookBack ==
  /\ last.op = "take_back"
  /\ decode_move(last.move_).capture
  /\ frames # <<>>
  /\ ~PerftRun
  /\ top.fn = "quiescence"
  /\ Len(history) = Len(frames) - 1
  /\ Len(frames) >= 2

\* ------------------------------------------------- quiescence
\* Searches that reach quiescence through an en passant capture, through a
\* promotion that captures, and through an exchange that leaves the two
\* kings.

\* after e2e4 Black captures en passant
EN_PASSANT_CAPTURE ==
  << <<"4", "k", "3", "/", "8", "/", "8", "/", "8", "/", "3", "p", "4", "/", "8", "/", "4", "P", "3", "/", "4", "K", "3">>,
     <<"w">>,
     <<"-">>,
     <<"-">>,
     <<"0">>,
     <<"1">> >>

\* after e2e3 the pawns are exchanged on e3
PAWN_EXCHANGE ==
  << <<"4", "k", "3", "/", "8", "/", "8", "/", "8", "/", "3", "p", "4", "/", "8", "/", "4", "P", "K", "2", "/", "8">>,
     <<"w">>,
     <<"-">>,
     <<"-">>,
     <<"0">>,
     <<"1">> >>

\* the pawn on b2 takes the knight on a1 and promotes
PROMOTION_CAPTURE ==
  << <<"4", "k", "3", "/", "8", "/", "8", "/", "8", "/", "3", "p", "4", "/", "8", "/", "1", "p", "2", "P", "K", "2", "/", "N", "7">>,
     <<"w">>,
     <<"-">>,
     <<"-">>,
     <<"0">>,
     <<"1">> >>

QuiescencePositions == {EN_PASSANT_CAPTURE, PAWN_EXCHANGE, PROMOTION_CAPTURE}

InitQuiescence ==
  /\ root \in QuiescencePositions
  /\ InitEngine(root)
  /\ last = [op |-> "init", move_ |-> 0, ok |-> TRUE]
  /\ frames = <<>>
  /\ perft = [done |-> FALSE, nodes |-> 0]
  /\ search = new_search
  /\ out = no_output
  /\ overflow_checks = TRUE

NextQuiescence ==
  \/ \E depth \in 1..MaxDepth : SearchPosition(depth)
  \/ SearchMake
  \/ SearchReturn
  \/ \E secs \in ElapsedSecs : SearchDone(secs)

\* a search is under way and has a next step: SearchMake or SearchReturn is
\* enabled
SearchRuns == frames # <<>> /\ ~out.panic /\ (Len(frames) > 1 \/ ~finished(top))

\* the search runs on one thread, from call to return: a loop that can take
\* its next move takes it, and an activation that has finished returns.
\* This is weak fairness of SearchMake \/ SearchReturn, with the enabling
\* condition written out as SearchRuns
SpecQuiescence ==
  /\ InitQuiescence
  /\ [][NextQuiescence]_vars
  /\ \/ []<>(~SearchRuns)
     \/ []<><<SearchMake \/ SearchReturn>>_vars

\* the activations of quiescence on the stack
QuiescenceFrames == {k \in 1..Len(frames) : frames[k].fn = "quiescence"}

\* the pieces on the board when the activation k was entered: the root
\* position after the moves made below it
PiecesAtEntry(k) ==
  piece_count(Replay(Engine_new(root), SubSeq(HistoryMoves, 1, k - 1)).bitboards)

\* no stack of activations in these searches is longer: the plies of negamax,
\* each of which a check may extend by one, and the captures that the six
\* pieces of PROMOTION_CAPTURE allow
StackBound == 2 * MaxDepth + 6

\* quiescence makes its recursive call
QuiescenceRecursion ==
  /\ frames # <<>>
  /\ top.fn = "quiescence"
  /\ Len(frames') = Len(frames) + 1

\* C29: every quiescence call terminates: each recursive call of quiescence
\* follows an accepted make_move of a move with the capture flag, which
\* leaves one piece less on the board (en passant and capturing promotions
\* as well), so below an activation of quiescence entered with n pieces on
\* the board there are at most n - 2 further activations; and whenever
\* activations of quiescence are on the stack, they all return
C29_QuiescenceTerminates ==
  /\ [][QuiescenceRecursion =>
          /\ last'.op = "make_move"
          /\ last'.ok
          /\ decode_move(last'.move_).capture
          /\ frames'[Len(frames')].fn = "quiescence"
          /\ piece_count(bitboards') = piece_count(bitboards) - 1]_vars
  /\ [](\A k \in QuiescenceFrames : Len(frames) - k <= PiecesAtEntry(k) - 2)
  /\ [](Len(frames) <= StackBound)
  /\ (QuiescenceFrames # {}) ~> (QuiescenceFrames = {})

\* quiescence has recursed after an en passant capture
C29_Witness ==
  /\ Len(frames) >= 3
  /\ top.fn = "quiescence"
  /\ frames[Len(frames) - 1].fn = "quiescence"
  /\ last.op = "make_move"
  /\ last.ok
  /\ decode_move(last.move_).en_passant
  /\ piece_count(bitboards) = PiecesAtEntry(Len(frames) - 1) - 1

\* ------------------------------------------------- move ordering and the
\* history heuristic
\* history_moves is never cleared (Engine::new zeroes it once, and
\* search_position resets search_ply and search_nodes only), and every quiet
\* move that raises alpha adds the depth of its node to one entry. The
\* searches of SpecHistory are "go depth HistoryDepth" commands, one after
\* the other, on the engine constructed from JAMMED_PAWNS.

\* the place of a move in a list, 0 if it is not there
PlaceIn(list, move_) ==
  IF \E n \in 1..Len(list) : list[n] = move_
    THEN CHOOSE n \in 1..Len(list) : list[n] = move_
    ELSE 0

\* captures first, then killer_moves[0][ply], then killer_moves[1][ply],
\* then the other quiet moves
Ordered(list, killer0, killer1) ==
  /\ \A i, j \in 1..Len(list) :
       decode_move(list[i]).capture /\ ~decode_move(list[j]).capture => i < j
  /\ PlaceIn(list, killer0) # 0 /\ PlaceIn(list, killer1) # 0 /\ killer0 # killer1
       => PlaceIn(list, killer0) < PlaceIn(list, killer1)
  /\ \A i, j \in 1..Len(list) :
       /\ list[i] \in {killer0, killer1}
       /\ ~decode_move(list[i]).capture
       /\ ~decode_move(list[j]).capture
       /\ list[j] \notin {killer0, killer1}
       => i < j

\* C30: every list that sort_moves returns has the captures before the
\* quiet moves, killer_moves[0][ply] before killer_moves[1][ply], and both
\* killers before every other quiet move, whatever history_moves has become
\* through its "+= depth" updates: the list of every activation that is in
\* its loop is so ordered, by the killers of the activation's ply (which
\* change only when the activation returns from a cutoff)
C30_SortedOrder ==
  \A n \in 1..Len(frames) :
    frames[n].fn \in {"negamax", "quiescence"} /\ ~frames[n].done =>
      Ordered(frames[n].moves,
              at(search.killer_moves, <<0, frames[n].ply_index>>),
              at(search.killer_moves, <<1, frames[n].ply_index>>))

\* in a search from JAMMED_PAWNS an activation of negamax is in its loop
\* over a list in which a quiet move stands before a capture
C30_Witness ==
  /\ root = JAMMED_PAWNS
  /\ \E n \in 1..Len(frames) :
       /\ frames[n].fn = "negamax"
       /\ ~frames[n].done
       /\ \E i, j \in 1..Len(frames[n].moves) :
            /\ i < j
            /\ ~decode_move(frames[n].moves[i]).capture
            /\ decode_move(frames[n].moves[j]).capture

====
